---- MODULE Spec2Model ----
(***************************************************************************)
(* Forest lifecycle of git-forest: creation (plan_forest / execute_plan)   *)
(* and removal (plan_rm / execute_rm) of one forest over NumRepos source   *)
(* repositories, together with the git and filesystem state they act on.   *)
(*                                                                         *)
(* Fault model.  git commands succeed or fail by git's own rules over the  *)
(* modelled state (missing or busy source repository, registered or        *)
(* missing worktree, dirty worktree, unmerged branch); a repository whose  *)
(* lock another git process holds for the time of one execution refuses    *)
(* state-changing commands.  Directory removals fail only when             *)
(* non-recursive on a non-empty directory.  ForestMeta::write may fail at  *)
(* any call (std::fs::write is not atomic: the old content may then be     *)
(* kept or lost).  The environment acts only while no lifecycle operation  *)
(* is executing, that is before planning and between planning and          *)
(* execution.                                                              *)
(***************************************************************************)
EXTENDS Integers, Sequences, FiniteSets, TLC

\* Number of repositories of the template (plan order is 1..NumRepos).
NumRepos == 2

Repos == 1..NumRepos

\* Number of forests that can exist under the worktree base when `reset` runs.
NumForests == 2

Forests == 1..NumForests

VARIABLES
    pc,          \* position of the lifecycle operation in flight
    srcState,    \* per source repository: "ok" or "gone" (its directory was deleted)
    busy,        \* source repositories whose git lock another process holds while
                 \* the operation in flight executes
    localRef,    \* refs/heads/<branch> exists in the source repository
    remoteRef,   \* refs/remotes/<remote>/<branch> exists
    baseRef,     \* refs/remotes/<remote>/<base_branch> exists
    registered,  \* the forest's worktree path is registered in the source repository
    baseDir,     \* the worktree base directory exists
    forestDir,   \* the forest directory exists
    metaFile,    \* the metadata file inside the forest directory
    wtDirs,      \* worktree subdirectories present in the forest directory
    extra,       \* the forest directory holds something unexpected
    dirty,       \* the worktree has uncommitted changes
    branchState, \* what git answered about the branch execute_rm consulted last
    plan,        \* ForestPlan.repo_plans of the creation in flight
    created,     \* execute_plan: created_worktrees
    memMeta,     \* execute_plan: meta.repos (in memory)
    idx,         \* loop index of the operation in flight
    newResult,   \* what plan_forest / execute_plan returned
    rmPlan,      \* RmPlan.repo_plans of the removal in flight
    force,       \* execute_rm: force
    rmResult,    \* what execute_rm returned (built up while it runs)
    calls        \* state-changing git / filesystem calls issued by the function in
                 \* flight (cmd_new up to its plan, execute_plan, cmd_rm)

\* `git forest reset`: the configuration and state files, the forests under the
\* worktree base (each lists every repository of the template), and cmd_reset.
VARIABLES
    rpc,         \* position of cmd_reset
    configFile,  \* the configuration file: "absent", "ok" or "corrupt" (unparsable)
    stateFile,   \* the state file exists
    rDirs,       \* forests whose directory (with a readable metadata file) exists
    rReg,        \* <<forest, repo>>: the forest's worktree is registered in the repository
    rSrc,        \* source repositories that exist
    resetFlags,  \* cmd_reset's arguments confirm, config_only, dry_run
    resetPlan,   \* ResetPlan
    rF,          \* execute_reset: index of the forest being torn down
    rR,          \* execute_reset: index of the repository being unregistered
    resetResult  \* ResetResult (built up while execute_reset runs)

\* Several forests under one worktree base, by name
VARIABLES
    npc,         \* position of the creation that is checked for collisions
    nName,       \* the forest name the caller passed
    nDirs,       \* names of the directories under the worktree base
    nMeta,       \* per directory: the name in its readable metadata file (<<>>: none)
    nResult      \* what the creation returned

namesVars == <<npc, nName, nDirs, nMeta, nResult>>

\* The worktree paths an operation unregisters or deletes
VARIABLES
    wpc,         \* position of the operation: "idle", "running", "aborted", "done"
    wOp,         \* "rollback" (execute_plan), "rm" (execute_rm) or "reset" (execute_reset)
    wForest,     \* the forest directory of the forest being operated on
    wNames,      \* the repository names of the plan, in plan order
    wIdx,        \* index of the repository being processed
    wRemoved     \* the paths handed to `git worktree remove` / remove_dir_all so far

pathVars == <<wpc, wOp, wForest, wNames, wIdx, wRemoved>>

\* The planner on its inputs
VARIABLES
    qpc,         \* "idle", or "done" once the planner has returned
    qIn,         \* the request and what the planner finds on disk
    qOut,        \* what the planner returned
    qDirs        \* the forest directories computed for the request so far

planVars == <<qpc, qIn, qOut, qDirs>>

\* The base branch of each repository: as the configuration has it now, as the forest's
\* metadata recorded it, and what the removal of the forest's branches asked git
VARIABLES
    bpc,         \* position of the removal ("idle", "planned", "done")
    cfgBase,     \* per repository: base_branch of the resolved template
    bMeta,       \* RepoMeta.base_branch per repository (<<>>: there is no forest)
    bAncestor,   \* per repository: the base branches the forest's branch is an ancestor of
    bPlan,       \* RepoRmPlan.base_branch per repository (<<>>: no plan)
    bOut         \* per repository: the base branch `merge-base --is-ancestor` was asked
                 \* about, and what can_safely_force_delete returned

baseVars == <<bpc, cfgBase, bMeta, bAncestor, bPlan, bOut>>

\* execute_plan on a template with one repository more, with the order of its
\* operations written down
VARIABLES
    kpc,         \* position of execute_plan ("idle", "add", "rollback", "done")
    kPlan,       \* ForestPlan.repo_plans
    kFailAt,     \* the repository whose `git worktree add` fails (0: none)
    kCreated,    \* created_worktrees
    kLeft,       \* worktrees that are registered and on disk
    kIdx,        \* loop index
    kLog         \* the operations execute_plan has attempted so far, in order

rollVars == <<kpc, kPlan, kFailAt, kCreated, kLeft, kIdx, kLog>>

\* The version check at the edge of the commands
VARIABLES
    vBg          \* detached version-check subprocesses that have not finished yet

versionVars == <<vBg>>

\* reset over the directories of one worktree base, by directory name
VARIABLES
    dpc,         \* position of the reset ("idle", "teardown", "done")
    dDisk,       \* per directory name: what is there (nothing, a directory without
                 \* readable metadata, or a forest with the name in its metadata and
                 \* whether the metadata lists repositories)
    dReg,        \* directory names under which git has worktrees registered
    dPlan,       \* ResetPlan.forests: name, path, and whether repos is non-empty
    dIdx,        \* execute_reset: index of the forest being torn down
    dResult      \* ResetResult.forests and ResetResult.errors

discoverVars == <<dpc, dDisk, dReg, dPlan, dIdx, dResult>>

resetDisk == <<configFile, stateFile, rDirs, rReg, rSrc>>
resetVars == <<rpc, configFile, stateFile, rDirs, rReg, rSrc, resetFlags, resetPlan, rF, rR,
               resetResult>>

envVars == <<srcState, localRef, remoteRef, baseRef, registered, forestDir, metaFile,
             wtDirs, extra, dirty, branchState>>
newVars == <<plan, created, memMeta, newResult>>
rmVars == <<rmPlan, force, rmResult>>
lifecycleVars == <<pc, srcState, busy, localRef, remoteRef, baseRef, registered, baseDir,
                   forestDir, metaFile, wtDirs, extra, dirty, branchState, plan, created,
                   memMeta, idx, newResult, rmPlan, force, rmResult, calls>>
\* the variables the forest lifecycle (new, rm) never touches
outsideLifecycle == <<resetVars, namesVars, pathVars, planVars, baseVars, rollVars, versionVars,
        discoverVars>>
\* the variables `reset` never touches in this model
outsideReset == <<lifecycleVars, namesVars, pathVars, planVars, baseVars, rollVars, versionVars,
        discoverVars>>
\* the variables the lifecycle of the single forest and `reset` work on
outsideNames == <<lifecycleVars, resetVars, pathVars, planVars, baseVars, rollVars, versionVars,
        discoverVars>>
\* the variables the path computations do not read
outsidePaths == <<lifecycleVars, resetVars, namesVars, planVars, baseVars, rollVars, versionVars,
        discoverVars>>
\* the variables the planner's input checks do not read
outsidePlan == <<lifecycleVars, resetVars, namesVars, pathVars, baseVars, rollVars, versionVars,
        discoverVars>>
\* the variables the base-branch bookkeeping does not read
outsideBase == <<lifecycleVars, resetVars, namesVars, pathVars, planVars, rollVars, versionVars,
        discoverVars>>
\* the variables the ordered run of execute_plan does not read
outsideRoll == <<lifecycleVars, resetVars, namesVars, pathVars, planVars, baseVars, versionVars,
        discoverVars>>
\* the variables the version check never touches (it writes the state file)
outsideVersion == <<lifecycleVars, namesVars, pathVars, planVars, baseVars, rollVars,
                    discoverVars>>
\* the variables the reset over directory names does not read
outsideDiscover == <<lifecycleVars, resetVars, namesVars, pathVars, planVars, baseVars,
                     rollVars, versionVars>>
vars == <<lifecycleVars, resetVars, namesVars, pathVars, planVars, baseVars, rollVars, versionVars,
        discoverVars>>

CheckoutKinds == {"ExistingLocal", "TrackRemote", "NewBranch"}

AbsentMeta == [state |-> "absent", repos |-> <<>>]
CorruptMeta == [state |-> "corrupt", repos |-> <<>>]
OkMeta(repos) == [state |-> "ok", repos |-> repos]

NoNewResult == [status |-> "none", dry_run |-> FALSE, failStep |-> "none",
                reason |-> "none", failedAt |-> 0, repos |-> <<>>]
NoRmResult == [status |-> "none", dry_run |-> FALSE, repos |-> <<>>, errors |-> <<>>,
               forest_dir_removed |-> FALSE]

\* reset.rs ResetResult / ResetPlan, before cmd_reset has run
NoResetFlags == [confirm |-> FALSE, config_only |-> FALSE, dry_run |-> FALSE]
NoResetPlan == [bails |-> FALSE, config_exists |-> FALSE, state_exists |-> FALSE, config_only |-> FALSE,
                forests |-> <<>>, warnings |-> <<>>]
NoResetResult == [status |-> "none", dry_run |-> FALSE, confirm_required |-> FALSE,
                  config_file |-> [existed |-> FALSE, deleted |-> FALSE],
                  state_file |-> [existed |-> FALSE, deleted |-> FALSE],
                  forests |-> <<>>, warnings |-> <<>>, errors |-> <<>>]

\* a configured installation without forests, no reset in flight
\* Forest names a caller may pass, as sequences of characters: plain names, names
\* with a slash, the name a slash sanitizes to, and the ones ForestName::new rejects
ForestNames ==
    {<<"a">>, <<"b">>, <<"a", "/", "b">>, <<"a", "-", "b">>, <<>>, <<".">>, <<".", ".">>}

\* a sanitizer that replaces the first slash only
sanitize_first_slash(name) ==
    LET slashes == {i \in 1..Len(name) : name[i] = "/"}
    IN [i \in 1..Len(name) |->
          IF slashes # {} /\ i = (CHOOSE k \in slashes : \A j \in slashes : k <= j)
          THEN "-" ELSE name[i]]

\* paths.rs sanitize_forest_name: name.replace('/', "-")
sanitize_forest_name(name) ==
    [i \in 1..Len(name) |-> IF name[i] = "/" THEN "-" ELSE name[i]]

\* a ForestName::new that accepts every name
AnyForestName(name) == TRUE

\* paths.rs ForestName::new succeeds
ForestNameOk(name) ==
    /\ ~(name = <<>> \/ name = <<".">> \/ name = <<".", ".">>)
    /\ sanitize_forest_name(name) # <<>>

\* the directory names under the worktree base: those forest_dir computes, and one
\* a user may rename a forest directory to
DirNames == {sanitize_forest_name(n) : n \in {m \in ForestNames : ForestNameOk(m)}}
               \cup {<<"x">>}

NoNameResult == [status |-> "none", reason |-> "none"]

\* new.rs NewInputs and ForestPlan, before plan_forest has run
NoPlanInputs ==
    [name |-> <<>>, mode |-> "none", template |-> <<>>, branch_override |-> <<>>,
     repo_branches |-> <<>>, collision |-> "none", missing_source |-> 0, no_base |-> 0]
NoPlanOutput == [status |-> "none", check |-> "none", plan |-> <<>>]

PlanAtRest ==
    /\ qpc = "idle"
    /\ qIn = NoPlanInputs
    /\ qOut = NoPlanOutput
    /\ qDirs = <<>>

\* A path as std::path::Path sees it: absolute or not, and its components
\* the base branches a configuration may name
BaseBranches == {"main", "dev"}

\* nothing asked of git yet
NoBaseAnswer == [asked |-> "none", safe |-> FALSE]

\* a configured installation without a forest, no removal in flight
BaseAtRest ==
    /\ bpc = "idle"
    /\ cfgBase = [r \in Repos |-> "main"]
    /\ bMeta = <<>>
    /\ bAncestor = [r \in Repos |-> {}]
    /\ bPlan = <<>>
    /\ bOut = [r \in Repos |-> NoBaseAnswer]

\* no creation is being followed step by step
RollAtRest ==
    /\ kpc = "idle"
    /\ kPlan = <<>>
    /\ kFailAt = 0
    /\ kCreated = <<>>
    /\ kLeft = {}
    /\ kIdx = 0
    /\ kLog = <<>>

\* the names of forests that get created under the worktree base
DiscoverNames == {<<"a">>, <<"a", "/", "b">>}

\* the directory names under the worktree base: those of the forests, and one a user
\* may rename a forest directory to
DiscoverDirs == {sanitize_forest_name(n) : n \in DiscoverNames} \cup {<<"x">>}

NoDir == [kind |-> "absent", meta |-> <<>>, repos |-> FALSE]
PlainDir == [kind |-> "plain", meta |-> <<>>, repos |-> FALSE]
ForestDirOf(name, repos) == [kind |-> "forest", meta |-> name, repos |-> repos]

NoDiscoverResult == [forests |-> <<>>, errors |-> <<>>]

\* an empty worktree base, no reset in flight
DiscoverAtRest ==
    /\ dpc = "idle"
    /\ dDisk = [d \in DiscoverDirs |-> NoDir]
    /\ dReg = {}
    /\ dPlan = <<>>
    /\ dIdx = 0
    /\ dResult = NoDiscoverResult

RootPath == [abs |-> TRUE, comps |-> <<>>]

PathsAtRest ==
    /\ wpc = "idle"
    /\ wOp = "none"
    /\ wForest = RootPath
    /\ wNames = <<>>
    /\ wIdx = 0
    /\ wRemoved = {}

NamesAtRest ==
    /\ npc = "idle"
    /\ nName = <<>>
    /\ nDirs = {}
    /\ nMeta = [d \in DirNames |-> <<>>]
    /\ nResult = NoNameResult

ResetAtRest ==
    /\ rpc = "idle"
    /\ configFile = "ok"
    /\ stateFile = FALSE
    /\ rDirs = {}
    /\ rReg = {}
    /\ rSrc = Repos
    /\ resetFlags = NoResetFlags
    /\ resetPlan = NoResetPlan
    /\ rF = 0
    /\ rR = 0
    /\ resetResult = NoResetResult

\* What git answers about a branch: `git branch -d` accepts it (merged), it is an
\* ancestor of base_branch, it has an upstream, it has commits not in that upstream.
\* (a branch without upstream has no commits "not in its upstream").
BranchStates == {bs \in [merged : BOOLEAN, ancestor : BOOLEAN, upstream : BOOLEAN,
                         unpushed : BOOLEAN] : bs.unpushed => bs.upstream}
FreshBranch == [merged |-> TRUE, ancestor |-> TRUE, upstream |-> FALSE,
                unpushed |-> FALSE]

----------------------------------------------------------------------------
(* Creation: plan_forest *)

\* a branch_created that also counts the local branch made for a remote branch
branch_created_for_any_new_local(checkout) == checkout # "ExistingLocal"

\* new.rs branch_created
branch_created(checkout) ==
    CASE checkout = "ExistingLocal" -> FALSE
      [] checkout = "TrackRemote" -> FALSE
      [] checkout = "NewBranch" -> TRUE

\* a branch resolution that takes NewBranch without looking for the base branch
ResolveCheckoutUnchecked(r) ==
    IF localRef[r] THEN "ExistingLocal"
    ELSE IF remoteRef[r] THEN "TrackRemote"
    ELSE "NewBranch"

\* a branch resolution that does not look for a local branch
ResolveCheckoutIgnoringLocal(r) ==
    IF remoteRef[r] THEN "TrackRemote"
    ELSE IF ~baseRef[r] THEN "none"
    ELSE "NewBranch"

\* new.rs plan_forest, branch resolution of one repository ("none": planning fails)
ResolveCheckout(r) ==
    IF localRef[r] THEN "ExistingLocal"
    ELSE IF remoteRef[r] THEN "TrackRemote"
    ELSE IF ~baseRef[r] THEN "none"
    ELSE "NewBranch"

\* new.rs plan_forest: the checks that make planning fail
PlanFails ==
    \/ forestDir
    \/ \E r \in Repos : srcState[r] = "gone"
    \/ \E r \in Repos : ResolveCheckout(r) = "none"

\* new.rs plan_forest: repo_plans, one per template repository, in template order
BuildRepoPlans == [r \in Repos |-> [name |-> r, checkout |-> ResolveCheckout(r)]]

\* new.rs plan_to_result
plan_to_result(p, dry) ==
    [status |-> "ok", dry_run |-> dry, failStep |-> "none", reason |-> "none",
     failedAt |-> 0,
     repos |-> [i \in 1..Len(p) |->
                  [name |-> p[i].name,
                   branch_created |-> branch_created(p[i].checkout),
                   checkout_kind |-> p[i].checkout]]]

ErrResult(step, at) ==
    [status |-> "err", dry_run |-> FALSE, failStep |-> step, reason |-> "none",
     failedAt |-> at, repos |-> <<>>]

\* The refs a source repository starts with.  A branch that exists locally or on the
\* remote is never deleted by the lifecycle (branch_created is false for it), so the
\* refs that plan_forest does not reach for such a repository are left at one value.
InitialRefs ==
    {[local |-> TRUE, remote |-> FALSE, base |-> TRUE],
     [local |-> FALSE, remote |-> TRUE, base |-> TRUE],
     [local |-> FALSE, remote |-> FALSE, base |-> TRUE],
     [local |-> FALSE, remote |-> FALSE, base |-> FALSE]}

Init ==
    /\ pc = "idle"
    /\ srcState = [r \in Repos |-> "ok"]
    /\ busy = {}
    /\ \E refs \in [Repos -> InitialRefs] :
         /\ localRef = [r \in Repos |-> refs[r].local]
         /\ remoteRef = [r \in Repos |-> refs[r].remote]
         /\ baseRef = [r \in Repos |-> refs[r].base]
    /\ registered = [r \in Repos |-> FALSE]
    /\ baseDir = FALSE
    /\ forestDir = FALSE
    /\ metaFile = AbsentMeta
    /\ wtDirs = {}
    /\ extra = FALSE
    /\ dirty = [r \in Repos |-> FALSE]
    /\ branchState = FreshBranch
    /\ plan = <<>>
    /\ created = <<>>
    /\ memMeta = <<>>
    /\ idx = 0
    /\ newResult = NoNewResult
    /\ rmPlan = <<>>
    /\ force = FALSE
    /\ rmResult = NoRmResult
    /\ calls = {}
    /\ ResetAtRest
    /\ NamesAtRest
    /\ PathsAtRest
    /\ PlanAtRest
    /\ BaseAtRest
    /\ RollAtRest
    /\ vBg = 0
    /\ DiscoverAtRest

\* What the caller typed: valid ("none"), or input that one of plan_forest's
\* validations rejects.
InputFaults == {"none", "forest name", "repo-branch key", "branch name"}

PlanErr(reason) == [ErrResult("plan", 0) EXCEPT !.reason = reason]

\* new.rs 96-223: the first check of plan_forest that fails, in the order of the code
\* ("none": the plan is built)
PlanError(fault) ==
    IF fault \in {"forest name", "repo-branch key"} THEN fault
    ELSE IF forestDir THEN "forest directory already exists"
    ELSE IF \E r \in Repos : srcState[r] = "gone" THEN "source repo not found"
    ELSE IF fault = "branch name" THEN fault
    ELSE IF \E r \in Repos : ResolveCheckout(r) = "none" THEN "base branch missing"
    ELSE "none"

\* new.rs 135-137: plan_forest creates the worktree base unless an earlier check failed
PlanReachesBaseDir(fault) == fault \notin {"forest name", "repo-branch key"}

\* new.rs 370-371: the repositories cmd_new fetches
Fetchable == {r \in Repos : srcState[r] = "ok"}

\* The remote-tracking refs of repository r after `git fetch <remote>`: refs the remote
\* holds appear (without --prune none disappears).  Refs that plan_forest does not read
\* for r are left as they are.
RefsAfterFetch(r) ==
    IF localRef[r]
    THEN {[remote |-> remoteRef[r], base |-> baseRef[r]]}
    ELSE {x \in [remote : {remoteRef[r], TRUE}, base : {baseRef[r], TRUE}] :
            x.remote => x.base}

\* new.rs 367-381: cmd_new up to the end of planning: the fetch loop, plan_forest,
\* and the dry-run return.  failAt is the repository whose fetch fails (0: none).
PlanForest ==
    /\ pc = "idle"
    /\ UNCHANGED <<busy, srcState, localRef, registered, forestDir, metaFile, wtDirs, extra,
                   dirty, branchState, rmVars>>
    /\ \E no_fetch, dry \in BOOLEAN, fault \in InputFaults, failAt \in {0} \cup Fetchable :
         LET fetched == IF no_fetch THEN {}
                        ELSE {r \in Fetchable : failAt = 0 \/ r < failAt}
             fetchCalls == {[cmd |-> "fetch", repo |-> r] : r \in fetched \cup ({failAt} \ {0})}
         IN /\ no_fetch => failAt = 0
            /\ \E refs \in [Repos -> [remote : BOOLEAN, base : BOOLEAN]] :
                 /\ \A r \in Repos :
                      refs[r] \in (IF r \in fetched THEN RefsAfterFetch(r)
                                   ELSE {[remote |-> remoteRef[r], base |-> baseRef[r]]})
                 /\ remoteRef' = [r \in Repos |-> refs[r].remote]
                 /\ baseRef' = [r \in Repos |-> refs[r].base]
            /\ IF failAt # 0
               THEN /\ newResult' = ErrResult("fetch", failAt)
                    /\ plan' = <<>>
                    /\ pc' = "new_done"
                    /\ calls' = fetchCalls
                    /\ UNCHANGED baseDir
               ELSE /\ baseDir' = (baseDir \/ PlanReachesBaseDir(fault))
                    /\ calls' = fetchCalls \cup
                                   (IF ~baseDir /\ PlanReachesBaseDir(fault)
                                    THEN {[cmd |-> "create_dir_all", repo |-> 0]} ELSE {})
                    /\ IF PlanError(fault)' # "none"
                       THEN /\ newResult' = PlanErr(PlanError(fault)')
                            /\ plan' = <<>>
                            /\ pc' = "new_done"
                       ELSE /\ plan' = BuildRepoPlans'
                            /\ IF dry
                               THEN /\ newResult' = plan_to_result(BuildRepoPlans', TRUE)
                                    /\ pc' = "new_done"
                               ELSE /\ newResult' = NoNewResult
                                    /\ pc' = "new_planned"
    /\ created' = <<>>
    /\ memMeta' = <<>>
    /\ idx' = 0
    /\ UNCHANGED outsideLifecycle

----------------------------------------------------------------------------
(* git and the filesystem, as far as the lifecycle commands use them *)

\* The repositories another git process may hold locked during one execution
\* (none, or one of those that still exist).
BusySets == {{}} \cup {{r} : r \in {q \in Repos : srcState[q] = "ok"}}

\* git.rs git(): a state-changing git command can run in source repository r
GitUsable(r) == srcState[r] = "ok" /\ r \notin busy

\* `git worktree add` (new.rs 301-330): the three argument shapes and when git accepts them
WorktreeAddOk(rp) ==
    LET r == rp.name IN
    /\ GitUsable(r)
    /\ ~registered[r]
    /\ r \notin wtDirs
    /\ CASE rp.checkout = "ExistingLocal" -> localRef[r]
         [] rp.checkout = "TrackRemote" -> ~localRef[r] /\ remoteRef[r]
         [] rp.checkout = "NewBranch" -> ~localRef[r] /\ baseRef[r]

\* A failed `git worktree add -b` may already have created the branch
\* (git creates the branch before it sets up the worktree).
BranchAfterFailedAdd(rp) ==
    LET r == rp.name IN
    IF /\ rp.checkout # "ExistingLocal"
       /\ GitUsable(r)
       /\ ~localRef[r]
       /\ (IF rp.checkout = "TrackRemote" THEN remoteRef[r] ELSE baseRef[r])
    THEN BOOLEAN
    ELSE {localRef[r]}

\* `git worktree remove [--force] <path>` run in source repository r
WorktreeRemoveOk(r, f) ==
    /\ GitUsable(r)
    /\ registered[r]
    /\ (f \/ ~dirty[r])

\* meta.rs ForestMeta::write: what can be on disk after a failed std::fs::write
AfterFailedWrite == {metaFile, CorruptMeta}

----------------------------------------------------------------------------
(* Creation: execute_plan, one step per external operation *)

\* an idempotent "create if absent": succeeds whether or not the directory exists
create_dir_all(exists) == TRUE

\* std::fs::create_dir: fails if something already exists at the path
create_dir(exists) == ~exists

\* new.rs 281: std::fs::create_dir(&plan.forest_dir)?
CreateForestDir ==
    /\ pc = "new_planned"
    /\ calls' = {[cmd |-> "create_dir", repo |-> 0]}
    /\ IF ~create_dir(forestDir)
       THEN /\ newResult' = ErrResult("mkdir", 0)
            /\ pc' = "new_done"
            /\ UNCHANGED <<forestDir, busy>>
       ELSE /\ forestDir' = TRUE
            /\ busy' \in BusySets
            /\ pc' = "new_meta0"
            /\ UNCHANGED newResult
    /\ UNCHANGED <<srcState, localRef, remoteRef, baseRef, registered, metaFile, wtDirs,
                   extra, dirty, branchState, plan, created, memMeta, idx, rmVars>>
    /\ UNCHANGED <<baseDir, outsideLifecycle>>

\* new.rs 284-292: meta with empty repos; meta.write(&meta_path)?
WriteInitialMeta ==
    /\ pc = "new_meta0"
    /\ calls' = calls \cup {[cmd |-> "write_meta", repo |-> 0]}
    /\ \E ok \in BOOLEAN :
         IF ok
         THEN /\ metaFile' = OkMeta(<<>>)
              /\ idx' = 1
              /\ pc' = "new_add"
              /\ UNCHANGED newResult
         ELSE /\ metaFile' \in AfterFailedWrite
              /\ newResult' = ErrResult("meta", 0)
              /\ pc' = "new_done"
              /\ UNCHANGED idx
    /\ memMeta' = <<>>
    /\ created' = <<>>
    /\ UNCHANGED <<busy, srcState, localRef, remoteRef, baseRef, registered, forestDir, wtDirs,
                   extra, dirty, branchState, plan, rmVars>>
    /\ UNCHANGED <<baseDir, outsideLifecycle>>

\* new.rs 337-343: the RepoMeta pushed for a repository whose worktree was added
RepoMetaOf(rp) == [name |-> rp.name, branch_created |-> branch_created(rp.checkout)]

\* a push that puts the new entry first instead of last
MetaPushedInFront(mm, rp) == <<RepoMetaOf(rp)>> \o mm

\* new.rs 337: meta.repos.push(..)
MetaAfterPush(mm, rp) == Append(mm, RepoMetaOf(rp))

\* new.rs 297-334, 346: git worktree add for plan.repo_plans[idx]
WorktreeAdd ==
    /\ pc = "new_add"
    /\ idx <= Len(plan)
    /\ LET rp == plan[idx]
           r == rp.name
       IN /\ calls' = calls \cup {[cmd |-> "worktree add", repo |-> r]}
          /\ IF WorktreeAddOk(rp)
             THEN /\ registered' = [registered EXCEPT ![r] = TRUE]
                  /\ wtDirs' = wtDirs \cup {r}
                  /\ localRef' = [localRef EXCEPT ![r] = TRUE]
                  /\ created' = Append(created, r)
                  /\ memMeta' = MetaAfterPush(memMeta, rp)
                  /\ pc' = "new_meta"
                  /\ UNCHANGED <<idx, newResult>>
             ELSE /\ \E b \in BranchAfterFailedAdd(rp) :
                       localRef' = [localRef EXCEPT ![r] = b]
                  /\ newResult' = [ErrResult("add", idx) EXCEPT !.status = "failing"]
                  /\ idx' = 1
                  /\ pc' = "new_rollback"
                  /\ UNCHANGED <<registered, wtDirs, created, memMeta>>
    /\ UNCHANGED <<busy, srcState, remoteRef, baseRef, forestDir, metaFile, extra, dirty,
                   branchState, plan, rmVars>>
    /\ UNCHANGED <<baseDir, outsideLifecycle>>

\* new.rs 344: meta.write(&meta_path)? after the push
RewriteMeta ==
    /\ pc = "new_meta"
    /\ calls' = calls \cup {[cmd |-> "write_meta", repo |-> 0]}
    /\ \E ok \in BOOLEAN :
         IF ok
         THEN /\ metaFile' = OkMeta(memMeta)
              /\ idx' = idx + 1
              /\ pc' = "new_add"
              /\ UNCHANGED newResult
         ELSE /\ metaFile' \in AfterFailedWrite
              /\ newResult' = ErrResult("meta", idx)
              /\ pc' = "new_done"
              /\ UNCHANGED idx
    /\ UNCHANGED <<busy, srcState, localRef, remoteRef, baseRef, registered, forestDir, wtDirs,
                   extra, dirty, branchState, plan, created, memMeta, rmVars>>
    /\ UNCHANGED <<baseDir, outsideLifecycle>>

\* new.rs 364: Ok(plan_to_result(plan, false))
ExecuteReturnsOk ==
    /\ pc = "new_add"
    /\ idx > Len(plan)
    /\ newResult' = plan_to_result(plan, FALSE)
    /\ pc' = "new_done"
    /\ UNCHANGED <<busy, envVars, plan, created, memMeta, idx, rmVars, calls>>
    /\ UNCHANGED <<baseDir, outsideLifecycle>>

\* new.rs 348: the worktrees the rollback loop visits, in its order
RollbackTargets(cr) == cr

\* new.rs 348-357: one iteration of the rollback loop; the result of git is discarded
RollbackRemove ==
    /\ pc = "new_rollback"
    /\ idx <= Len(RollbackTargets(created))
    /\ LET r == RollbackTargets(created)[idx]
       IN /\ calls' = calls \cup {[cmd |-> "worktree remove", repo |-> r]}
          /\ IF WorktreeRemoveOk(r, TRUE)
             THEN /\ registered' = [registered EXCEPT ![r] = FALSE]
                  /\ wtDirs' = wtDirs \ {r}
                  /\ dirty' = [dirty EXCEPT ![r] = FALSE]
             ELSE UNCHANGED <<registered, wtDirs, dirty>>
    /\ idx' = idx + 1
    /\ UNCHANGED <<pc, busy, srcState, localRef, remoteRef, baseRef, forestDir, metaFile, extra,
                   branchState, newVars, rmVars>>
    /\ UNCHANGED <<baseDir, outsideLifecycle>>

\* new.rs 358-359: remove_dir_all(&plan.forest_dir), result discarded; return Err(e)
RollbackRemoveDir ==
    /\ pc = "new_rollback"
    /\ idx > Len(RollbackTargets(created))
    /\ calls' = calls \cup {[cmd |-> "remove_dir_all", repo |-> 0]}
    /\ forestDir' = FALSE
    /\ metaFile' = AbsentMeta
    /\ wtDirs' = {}
    /\ extra' = FALSE
    /\ dirty' = [r \in Repos |-> FALSE]
    /\ newResult' = [newResult EXCEPT !.status = "err"]
    /\ pc' = "new_done"
    /\ UNCHANGED <<busy, srcState, localRef, remoteRef, baseRef, registered, branchState, plan,
                   created, memMeta, idx, rmVars>>
    /\ UNCHANGED <<baseDir, outsideLifecycle>>

\* the caller takes the result; no operation is in flight any more
NewReturn ==
    /\ pc = "new_done"
    /\ pc' = "idle"
    /\ plan' = <<>>
    /\ created' = <<>>
    /\ memMeta' = <<>>
    /\ idx' = 0
    /\ newResult' = NoNewResult
    /\ calls' = {}
    /\ busy' = {}
    /\ UNCHANGED <<envVars, rmVars>>
    /\ UNCHANGED <<baseDir, outsideLifecycle>>

----------------------------------------------------------------------------
(* The environment: other programs and the developer, between operations *)

EnvMayAct == pc \in {"idle", "new_planned", "rm_planned"}

\* a source repository is deleted (its worktree registrations go with it)
EnvRemoveSource(r) ==
    /\ EnvMayAct
    /\ srcState[r] # "gone"
    /\ srcState' = [srcState EXCEPT ![r] = "gone"]
    /\ registered' = [registered EXCEPT ![r] = FALSE]
    /\ UNCHANGED <<pc, busy, localRef, remoteRef, baseRef, forestDir, metaFile, wtDirs,
                   extra, dirty, branchState, newVars, idx, rmVars, calls>>
    /\ UNCHANGED <<baseDir, outsideLifecycle>>

\* the developer leaves uncommitted changes in a worktree
EnvMakeDirty(r) ==
    /\ EnvMayAct
    /\ r \in wtDirs
    /\ ~dirty[r]
    /\ dirty' = [dirty EXCEPT ![r] = TRUE]
    /\ UNCHANGED <<pc, busy, srcState, localRef, remoteRef, baseRef, registered, forestDir,
                   metaFile, wtDirs, extra, branchState, newVars, idx, rmVars, calls>>
    /\ UNCHANGED <<baseDir, outsideLifecycle>>

\* something else creates the forest directory, or drops a file into it
EnvDropFile ==
    /\ EnvMayAct
    /\ ~extra
    /\ baseDir' = TRUE
    /\ forestDir' = TRUE
    /\ extra' = TRUE
    /\ UNCHANGED <<pc, busy, srcState, localRef, remoteRef, baseRef, registered, metaFile,
                   wtDirs, dirty, branchState, newVars, idx, rmVars, calls>>
    /\ UNCHANGED outsideLifecycle

Environment ==
    \/ \E r \in Repos : EnvRemoveSource(r)
    \/ \E r \in Repos : EnvMakeDirty(r)
    \/ EnvDropFile

----------------------------------------------------------------------------
(* Removal: plan_rm and execute_rm *)

\* git.rs git(): a read-only git command can run in source repository r
GitReadable(r) == srcState[r] # "gone"

\* a plan_rm for which a status probe that fails means uncommitted changes
RepoRmPlanDirtyUnlessClean(rm) ==
    LET r == rm.name
        worktree_exists == r \in wtDirs
    IN [name |-> r,
        branch_created |-> rm.branch_created,
        worktree_exists |-> worktree_exists,
        source_exists |-> srcState[r] # "gone",
        has_dirty_files |-> worktree_exists
                            /\ (GitReadable(r) /\ registered[r] => dirty[r])]

\* rm.rs plan_rm: the probes of one repository, frozen into the plan
RepoRmPlanOf(rm) ==
    LET r == rm.name
        worktree_exists == r \in wtDirs
    IN [name |-> r,
        branch_created |-> rm.branch_created,
        worktree_exists |-> worktree_exists,
        source_exists |-> srcState[r] # "gone",
        has_dirty_files |-> worktree_exists /\ GitReadable(r) /\ registered[r] /\ dirty[r]]

\* rm.rs plan_rm
plan_rm(meta) == [i \in 1..Len(meta.repos) |-> RepoRmPlanOf(meta.repos[i])]

\* a dry run that never predicts the dirty preflight
DryRunNeverBlocked(p, f) == FALSE

\* rm.rs 402: has_dirty of plan_to_dry_run_result
DryRunBlocked(p, f) == ~f /\ \E i \in 1..Len(p) : p[i].has_dirty_files

\* rm.rs 411-413, 464-469: the errors plan_to_dry_run_result collects
RECURSIVE DryRunErrors(_)
DryRunErrors(p) ==
    IF p = <<>> THEN <<[kind |-> "hint", repo |-> 0]>>
    ELSE (IF Head(p).has_dirty_files
          THEN <<[kind |-> "uncommitted changes", repo |-> Head(p).name]>> ELSE <<>>)
         \o DryRunErrors(Tail(p))

\* rm.rs plan_to_dry_run_result
plan_to_dry_run_result(p, f) ==
    LET has_dirty == DryRunBlocked(p, f)
        repo(rp) ==
            IF has_dirty
            THEN [name |-> rp.name,
                  worktree_removed |-> IF rp.has_dirty_files THEN "Failed" ELSE "Skipped",
                  branch_deleted |-> "Skipped"]
            ELSE [name |-> rp.name,
                  worktree_removed |-> IF ~rp.worktree_exists THEN "Skipped" ELSE "Success",
                  branch_deleted |-> IF ~rp.branch_created THEN "Skipped"
                                     ELSE IF ~rp.worktree_exists THEN "Success"
                                     ELSE "Success"]
    IN [status |-> "done", dry_run |-> TRUE,
        repos |-> [i \in 1..Len(p) |-> repo(p[i])],
        errors |-> IF has_dirty THEN DryRunErrors(p) ELSE <<>>,
        forest_dir_removed |-> ~has_dirty]

\* rm.rs cmd_rm: plan_rm on the metadata the caller read from the forest directory,
\* and the dry-run return
PlanRm ==
    /\ pc = "idle"
    /\ forestDir
    /\ metaFile.state = "ok"
    /\ rmPlan' = plan_rm(metaFile)
    /\ force' \in BOOLEAN
    /\ \E dry \in BOOLEAN :
         IF dry
         THEN /\ rmResult' = plan_to_dry_run_result(rmPlan', force')
              /\ pc' = "rm_done"
         ELSE /\ rmResult' = NoRmResult
              /\ pc' = "rm_planned"
    /\ idx' = 0
    /\ calls' = {}
    /\ UNCHANGED <<busy, envVars, newVars>>
    /\ UNCHANGED <<baseDir, outsideLifecycle>>

DirtyError(r) == [kind |-> "uncommitted changes", repo |-> r]
HintError == [kind |-> "hint", repo |-> 0]

\* rm.rs 112-116: one error per dirty repository, in plan order
RECURSIVE DirtyErrors(_)
DirtyErrors(p) ==
    IF p = <<>> THEN <<>>
    ELSE (IF Head(p).has_dirty_files THEN <<DirtyError(Head(p).name)>> ELSE <<>>)
         \o DirtyErrors(Tail(p))

\* rm.rs 100-154: the result of the refused removal
PreflightRefusal(p) ==
    [status |-> "done", dry_run |-> FALSE,
     repos |-> [i \in 1..Len(p) |->
                  IF p[i].has_dirty_files
                  THEN [name |-> p[i].name, worktree_removed |-> "Failed",
                        branch_deleted |-> "Skipped"]
                  ELSE [name |-> p[i].name, worktree_removed |-> "Skipped",
                        branch_deleted |-> "Skipped"]],
     errors |-> DirtyErrors(p) \o <<HintError>>,
     forest_dir_removed |-> FALSE]

\* a preflight that asks the worktrees again instead of reading the plan
PreflightProbesAgain(p, f) ==
    ~f /\ \E i \in 1..Len(p) :
             p[i].name \in wtDirs /\ GitReadable(p[i].name) /\ registered[p[i].name]
             /\ dirty[p[i].name]

\* a preflight that looks at the first repository only
PreflightChecksFirstOnly(p, f) == ~f /\ p # <<>> /\ p[1].has_dirty_files

\* rm.rs 101-108: the preflight refuses
PreflightBlocks(p, f) == ~f /\ \E i \in 1..Len(p) : p[i].has_dirty_files

\* rm.rs 100-157: execute_rm up to the start of the per-repository loop
RmPreflight ==
    /\ pc = "rm_planned"
    /\ IF PreflightBlocks(rmPlan, force)
       THEN /\ rmResult' = PreflightRefusal(rmPlan)
            /\ pc' = "rm_done"
            /\ UNCHANGED <<idx, busy>>
       ELSE /\ rmResult' = [NoRmResult EXCEPT !.status = "running"]
            /\ busy' \in BusySets
            /\ pc' = "rm_loop"
            /\ idx' = 1
    /\ UNCHANGED <<envVars, newVars, rmPlan, force, calls>>
    /\ UNCHANGED <<baseDir, outsideLifecycle>>

\* a remove_worktree that asks git whether or not the source repository is there
remove_worktree_by_git(rp, f) ==
    IF ~rp.worktree_exists
    THEN [outcome |-> "Skipped", ok |-> TRUE, how |-> "none", err |-> <<>>]
    ELSE IF WorktreeRemoveOk(rp.name, f)
    THEN [outcome |-> "Success", ok |-> TRUE, how |-> "worktree remove", err |-> <<>>]
    ELSE [outcome |-> "Failed", ok |-> FALSE, how |-> "worktree remove",
          err |-> <<[kind |-> "git worktree remove failed", repo |-> rp.name]>>]

\* rm.rs remove_worktree: [outcome, ok (wt_succeeded), how (the call issued), err]
remove_worktree(rp, f) ==
    LET r == rp.name IN
    IF ~rp.worktree_exists
    THEN [outcome |-> "Skipped", ok |-> TRUE, how |-> "none", err |-> <<>>]
    ELSE IF ~rp.source_exists
    THEN IF r \in wtDirs
         THEN [outcome |-> "Success", ok |-> TRUE, how |-> "fs remove_dir_all",
               err |-> <<>>]
         ELSE [outcome |-> "Failed", ok |-> FALSE, how |-> "fs remove_dir_all",
               err |-> <<[kind |-> "failed to remove worktree directory", repo |-> r]>>]
    ELSE IF WorktreeRemoveOk(r, f)
         THEN [outcome |-> "Success", ok |-> TRUE, how |-> "worktree remove",
               err |-> <<>>]
         ELSE [outcome |-> "Failed", ok |-> FALSE, how |-> "worktree remove",
               err |-> <<[kind |-> "git worktree remove failed", repo |-> r]>>]

\* a fallback 2 that accepts any branch with an upstream, pushed or not
can_delete_if_tracking(r, bs) ==
    IF GitReadable(r) /\ localRef[r] /\ bs.ancestor
    THEN TRUE
    ELSE GitReadable(r) /\ localRef[r] /\ bs.upstream

\* rm.rs can_safely_force_delete, on git's answers bs about the branch of r
can_safely_force_delete(r, bs) ==
    IF GitReadable(r) /\ localRef[r] /\ bs.ancestor
    THEN TRUE
    ELSE IF GitReadable(r) /\ localRef[r] /\ bs.upstream
    THEN ~bs.unpushed
    ELSE FALSE

\* `git branch -D` / `git branch -d`, with the registration left by the worktree step
BranchDOk(r, reg) == GitUsable(r) /\ localRef[r] /\ ~reg
BranchdOk(r, reg, bs) == BranchDOk(r, reg) /\ bs.merged

BranchSkipped == [outcome |-> "Skipped", tried |-> {}, deleted |-> FALSE, err |-> <<>>]

\* rm.rs 268-318: delete_branch after its branch_created check
delete_created_branch(rp, f, wt_succeeded, reg, bs) ==
    LET r == rp.name
        forceDelete(tried) ==
            IF BranchDOk(r, reg)
            THEN [outcome |-> "Success", tried |-> tried, deleted |-> TRUE, err |-> <<>>]
            ELSE [outcome |-> "Failed", tried |-> tried, deleted |-> FALSE,
                  err |-> <<[kind |-> "git branch -D failed", repo |-> r]>>]
    IN IF ~wt_succeeded THEN BranchSkipped
       ELSE IF ~rp.source_exists THEN BranchSkipped
       ELSE IF f THEN forceDelete({"branch -D"})
       ELSE IF BranchdOk(r, reg, bs)
       THEN [outcome |-> "Success", tried |-> {"branch -d"}, deleted |-> TRUE,
             err |-> <<>>]
       ELSE IF can_safely_force_delete(r, bs)
       THEN forceDelete({"branch -d", "branch -D"})
       ELSE [outcome |-> "Failed", tried |-> {"branch -d"}, deleted |-> FALSE,
             err |-> <<[kind |-> "not fully merged, hint: --force", repo |-> r]>>]

\* a delete_branch that does not wait for the worktree step
delete_branch_whatever_worktree(rp, f, wt_succeeded, reg, bs) ==
    IF ~rp.branch_created THEN BranchSkipped
    ELSE delete_created_branch(rp, f, TRUE, reg, bs)

\* a delete_branch whose force only counts for a branch git calls merged
delete_branch_force_if_merged(rp, f, wt_succeeded, reg, bs) ==
    IF ~rp.branch_created THEN BranchSkipped
    ELSE delete_created_branch(rp, f /\ bs.merged, wt_succeeded, reg, bs)

\* rm.rs delete_branch: [outcome, tried (git branch calls issued), deleted, err]
delete_branch(rp, f, wt_succeeded, reg, bs) ==
    IF ~rp.branch_created THEN BranchSkipped
    ELSE delete_created_branch(rp, f, wt_succeeded, reg, bs)

\* delete_branch consults git's answers about the branch only on this path
ConsultsBranchState(rp, f, wt_succeeded) ==
    rp.branch_created /\ wt_succeeded /\ rp.source_exists /\ ~f

\* a loop that gives up on the remaining repositories once an error was recorded
StopAtFirstError(i, n, errors) == IF errors # <<>> THEN n + 1 ELSE i + 1

\* rm.rs 159: `for repo_plan in &plan.repo_plans` goes on whatever was recorded
NextRepoPlan(i, n, errors) == i + 1

\* rm.rs 159-187: one iteration of execute_rm's loop (remove_worktree, delete_branch)
RmRepo ==
    /\ pc = "rm_loop"
    /\ idx <= Len(rmPlan)
    /\ LET rp == rmPlan[idx]
           r == rp.name
           wt == remove_worktree(rp, force)
           removed == wt.outcome = "Success"
           reg == IF removed /\ wt.how = "worktree remove" THEN FALSE ELSE registered[r]
       IN \E bs \in (IF ConsultsBranchState(rp, force, wt.ok)
                     THEN BranchStates ELSE {FreshBranch}) :
            LET br == delete_branch(rp, force, wt.ok, reg, bs)
            IN /\ branchState' = bs
               /\ registered' = [registered EXCEPT ![r] = reg]
               /\ wtDirs' = IF removed THEN wtDirs \ {r} ELSE wtDirs
               /\ dirty' = IF removed THEN [dirty EXCEPT ![r] = FALSE] ELSE dirty
               /\ localRef' = IF br.deleted THEN [localRef EXCEPT ![r] = FALSE]
                              ELSE localRef
               /\ calls' = calls
                           \cup (IF wt.how = "none" THEN {}
                                 ELSE {[cmd |-> wt.how, repo |-> r]})
                           \cup {[cmd |-> c, repo |-> r] : c \in br.tried}
               /\ rmResult' = [rmResult EXCEPT
                                 !.repos = Append(@, [name |-> r,
                                                      worktree_removed |-> wt.outcome,
                                                      branch_deleted |-> br.outcome]),
                                 !.errors = @ \o wt.err \o br.err]
    /\ idx' = NextRepoPlan(idx, Len(rmPlan), rmResult'.errors)
    /\ UNCHANGED <<pc, busy, srcState, remoteRef, baseRef, forestDir, metaFile, extra, newVars,
                   rmPlan, force>>
    /\ UNCHANGED <<baseDir, outsideLifecycle>>

\* a remove_forest_dir that reports success and removes nothing
leave_forest_dir(f) ==
    [removed |-> TRUE, err |-> <<>>, dir |-> forestDir, meta |-> metaFile,
     wts |-> wtDirs, extra |-> extra]

\* a remove_forest_dir that recurses whether or not force is set
remove_forest_dir_all(f) ==
    [removed |-> TRUE, err |-> <<>>, dir |-> FALSE, meta |-> AbsentMeta,
     wts |-> {}, extra |-> FALSE]

\* rm.rs remove_forest_dir: [removed, err, and what is left on disk]
remove_forest_dir(f) ==
    IF ~forestDir
    THEN [removed |-> TRUE, err |-> <<>>, dir |-> forestDir, meta |-> metaFile,
          wts |-> wtDirs, extra |-> extra]
    ELSE IF f
    THEN [removed |-> TRUE, err |-> <<>>, dir |-> FALSE, meta |-> AbsentMeta,
          wts |-> {}, extra |-> FALSE]
    ELSE IF wtDirs = {} /\ ~extra
    THEN [removed |-> TRUE, err |-> <<>>, dir |-> FALSE, meta |-> AbsentMeta,
          wts |-> {}, extra |-> FALSE]
    ELSE [removed |-> FALSE,
          err |-> <<[kind |-> "forest directory not removed (not empty)", repo |-> 0]>>,
          dir |-> TRUE, meta |-> AbsentMeta, wts |-> wtDirs, extra |-> extra]

\* an execute_rm that removes the forest directory whatever happened before
AlwaysRemoveForestDir(errors) == TRUE

\* rm.rs 190: the forest directory is removed only if no error accumulated
MayRemoveForestDir(errors) == errors = <<>>

\* rm.rs 189-205: after the loop
RmFinish ==
    /\ pc = "rm_loop"
    /\ idx > Len(rmPlan)
    /\ IF MayRemoveForestDir(rmResult.errors)
       THEN LET fd == remove_forest_dir(force)
            IN /\ forestDir' = fd.dir
               /\ metaFile' = fd.meta
               /\ wtDirs' = fd.wts
               /\ extra' = fd.extra
               /\ dirty' = [r \in Repos |-> dirty[r] /\ r \in fd.wts]
               /\ calls' = calls \cup {[cmd |-> "remove forest dir", repo |-> 0]}
               /\ rmResult' = [rmResult EXCEPT !.status = "done",
                                               !.errors = @ \o fd.err,
                                               !.forest_dir_removed = fd.removed]
       ELSE /\ rmResult' = [rmResult EXCEPT !.status = "done",
                                            !.forest_dir_removed = FALSE]
            /\ UNCHANGED <<forestDir, metaFile, wtDirs, extra, dirty, calls>>
    /\ pc' = "rm_done"
    /\ UNCHANGED <<busy, srcState, localRef, remoteRef, baseRef, registered, branchState,
                   newVars, idx, rmPlan, force>>
    /\ UNCHANGED <<baseDir, outsideLifecycle>>

\* the caller takes the result; no operation is in flight any more
RmReturn ==
    /\ pc = "rm_done"
    /\ pc' = "idle"
    /\ rmPlan' = <<>>
    /\ force' = FALSE
    /\ rmResult' = NoRmResult
    /\ branchState' = FreshBranch
    /\ idx' = 0
    /\ calls' = {}
    /\ busy' = {}
    /\ UNCHANGED <<srcState, localRef, remoteRef, baseRef, registered, forestDir,
                   metaFile, wtDirs, extra, dirty, newVars>>
    /\ UNCHANGED <<baseDir, outsideLifecycle>>

RmNext ==
    \/ PlanRm
    \/ RmPreflight
    \/ RmRepo
    \/ RmFinish
    \/ RmReturn

NewNext ==
    \/ PlanForest
    \/ CreateForestDir
    \/ WriteInitialMeta
    \/ WorktreeAdd
    \/ RewriteMeta
    \/ ExecuteReturnsOk
    \/ RollbackRemove
    \/ RollbackRemoveDir
    \/ NewReturn

Next == NewNext \/ RmNext \/ Environment

\* forest.rs discover_forests: the names of the forests found under the worktree base
\* (directories that hold a readable metadata file)
discover_forests ==
    IF ~baseDir THEN {}
    ELSE IF forestDir /\ metaFile.state = "ok" THEN {"f"} ELSE {}

\* ls.rs cmd_ls: the names listed
cmd_ls == discover_forests

Spec == Init /\ [][Next]_vars

----------------------------------------------------------------------------
(* The base branch: configuration, metadata and the ancestor check of rm *)

\* an ancestor check that asks about the base branch the configuration names now
base_branch_of_config(r, meta, cfg) == cfg[r]

\* rm.rs 77: RepoRmPlan.base_branch is repo.base_branch of the metadata
base_branch_of_plan(r, meta, cfg) == meta[r]

\* new.rs 232, 341: execute_plan records the base branch of the resolved template in
\* the metadata; the new branch starts at <remote>/<base_branch>
BaseNew ==
    /\ bpc = "idle"
    /\ bMeta = <<>>
    /\ bMeta' = cfgBase
    /\ bAncestor' = [r \in Repos |-> {cfgBase[r]}]
    /\ UNCHANGED <<bpc, cfgBase, bPlan, bOut, outsideBase>>

\* the developer commits on the forest's branch of repository r
BaseCommit(r) ==
    /\ bpc = "idle"
    /\ bMeta # <<>>
    /\ bAncestor[r] # {}
    /\ bAncestor' = [bAncestor EXCEPT ![r] = {}]
    /\ UNCHANGED <<bpc, cfgBase, bMeta, bPlan, bOut, outsideBase>>

\* the forest's branch of repository r is merged into base branch b
BaseMerge(r, b) ==
    /\ bpc = "idle"
    /\ bMeta # <<>>
    /\ b \notin bAncestor[r]
    /\ bAncestor' = [bAncestor EXCEPT ![r] = @ \cup {b}]
    /\ UNCHANGED <<bpc, cfgBase, bMeta, bPlan, bOut, outsideBase>>

\* config.rs 227-230: the configuration is edited, repository r gets base branch b
BaseReconfigure(r, b) ==
    /\ bpc = "idle"
    /\ cfgBase[r] # b
    /\ cfgBase' = [cfgBase EXCEPT ![r] = b]
    /\ UNCHANGED <<bpc, bMeta, bAncestor, bPlan, bOut, outsideBase>>

\* rm.rs plan_rm
BasePlanRm ==
    /\ bpc = "idle"
    /\ bMeta # <<>>
    /\ bPlan' = [r \in Repos |-> base_branch_of_plan(r, bMeta, cfgBase)]
    /\ bpc' = "planned"
    /\ UNCHANGED <<cfgBase, bMeta, bAncestor, bOut, outsideBase>>

\* rm.rs 294-297, 330-360: `git branch -d` was refused for every repository and
\* can_safely_force_delete is asked; pushed[r] is the answer of its second fallback
BaseSafetyFallback ==
    /\ bpc = "planned"
    /\ \E pushed \in [Repos -> BOOLEAN] :
         bOut' = [r \in Repos |->
                    [asked |-> bPlan[r],
                     safe |-> bPlan[r] \in bAncestor[r] \/ pushed[r]]]
    /\ bpc' = "done"
    /\ UNCHANGED <<cfgBase, bMeta, bAncestor, bPlan, outsideBase>>

\* the removal returns; the forest is gone
BaseReturn ==
    /\ bpc = "done"
    /\ bpc' = "idle"
    /\ bMeta' = <<>>
    /\ bAncestor' = [r \in Repos |-> {}]
    /\ bPlan' = <<>>
    /\ bOut' = [r \in Repos |-> NoBaseAnswer]
    /\ UNCHANGED <<cfgBase, outsideBase>>

BaseNext ==
    \/ BaseNew
    \/ \E r \in Repos : BaseCommit(r)
    \/ \E r \in Repos, b \in BaseBranches : BaseMerge(r, b)
    \/ \E r \in Repos, b \in BaseBranches : BaseReconfigure(r, b)
    \/ BasePlanRm
    \/ BaseSafetyFallback
    \/ BaseReturn

\* the bookkeeping is followed on an installation whose forest lifecycle is at rest
BaseInit ==
    /\ Init
    /\ localRef = [r \in Repos |-> FALSE]
    /\ remoteRef = [r \in Repos |-> FALSE]
    /\ baseRef = [r \in Repos |-> TRUE]

BaseSpec == BaseInit /\ [][BaseNext]_vars

----------------------------------------------------------------------------
(* execute_plan, the order of its operations *)

\* the repositories of a template on which two worktrees can be created before an
\* addition fails
RollRepos == 1..(NumRepos + 1)

\* a rollback that visits the created worktrees last created first
RECURSIVE LastCreatedFirst(_)
LastCreatedFirst(cr) ==
    IF cr = <<>> THEN <<>> ELSE <<cr[Len(cr)]>> \o LastCreatedFirst(SubSeq(cr, 1, Len(cr) - 1))

\* new.rs 276-295: create_dir and the initial metadata went through; failAt is the
\* repository whose `git worktree add` will fail (0: none)
RollStart(failAt) ==
    /\ kpc = "idle"
    /\ kpc' = "add"
    /\ \E kinds \in [RollRepos -> CheckoutKinds] :
         kPlan' = [r \in RollRepos |-> [name |-> r, checkout |-> kinds[r]]]
    /\ kFailAt' = failAt
    /\ kCreated' = <<>>
    /\ kLeft' = {}
    /\ kIdx' = 1
    /\ kLog' = <<>>
    /\ UNCHANGED outsideRoll

\* new.rs 297-346: one iteration of the loop over plan.repo_plans
RollAdd ==
    /\ kpc = "add"
    /\ kIdx \in 1..Len(kPlan)
    /\ LET rp == kPlan[kIdx]
           added == [op |-> "worktree add", repo |-> rp.name, how |-> rp.checkout]
       IN IF kIdx # kFailAt
          THEN /\ kCreated' = Append(kCreated, rp.name)
               /\ kLeft' = kLeft \cup {rp.name}
               /\ \E written \in BOOLEAN :
                    IF written
                    THEN /\ kLog' = Append(kLog, added)
                         /\ kIdx' = kIdx + 1
                         /\ kpc' = "add"
                    ELSE /\ kLog' = kLog \o <<added, [op |-> "meta.write failed",
                                                      repo |-> rp.name, how |-> "none"]>>
                         /\ kIdx' = kIdx
                         /\ kpc' = "done"
          ELSE /\ kLog' = Append(kLog, [op |-> "worktree add failed", repo |-> rp.name,
                                        how |-> rp.checkout])
               /\ kIdx' = 1
               /\ kpc' = "rollback"
               /\ UNCHANGED <<kCreated, kLeft>>
    /\ UNCHANGED <<kPlan, kFailAt, outsideRoll>>

\* new.rs 364: every addition went through
RollReturnsOk ==
    /\ kpc = "add"
    /\ kIdx > Len(kPlan)
    /\ kpc' = "done"
    /\ UNCHANGED <<kPlan, kFailAt, kCreated, kLeft, kIdx, kLog, outsideRoll>>

\* new.rs 348-357: one iteration of the rollback loop; the result of git is discarded
RollRemove ==
    /\ kpc = "rollback"
    /\ kIdx <= Len(RollbackTargets(kCreated))
    /\ LET r == RollbackTargets(kCreated)[kIdx]
       IN /\ kLog' = Append(kLog, [op |-> "worktree remove", repo |-> r, how |-> "--force"])
          /\ \E ok \in BOOLEAN : kLeft' = IF ok THEN kLeft \ {r} ELSE kLeft
    /\ kIdx' = kIdx + 1
    /\ UNCHANGED <<kpc, kPlan, kFailAt, kCreated, outsideRoll>>

\* new.rs 358-359: remove_dir_all(&plan.forest_dir) and return Err(e)
RollRemoveDir ==
    /\ kpc = "rollback"
    /\ kIdx > Len(RollbackTargets(kCreated))
    /\ kLog' = Append(kLog, [op |-> "remove_dir_all", repo |-> 0, how |-> "none"])
    /\ kpc' = "done"
    /\ UNCHANGED <<kPlan, kFailAt, kCreated, kLeft, kIdx, outsideRoll>>

\* the caller takes the result
RollReturn ==
    /\ kpc = "done"
    /\ kpc' = "idle"
    /\ kPlan' = <<>>
    /\ kFailAt' = 0
    /\ kCreated' = <<>>
    /\ kLeft' = {}
    /\ kIdx' = 0
    /\ kLog' = <<>>
    /\ UNCHANGED outsideRoll

RollNext ==
    \/ \E failAt \in {0} \cup RollRepos : RollStart(failAt)
    \/ RollAdd
    \/ RollReturnsOk
    \/ RollRemove
    \/ RollRemoveDir
    \/ RollReturn

\* the run is followed on an installation that is otherwise at rest
RollInit ==
    /\ Init
    /\ localRef = [r \in Repos |-> FALSE]
    /\ remoteRef = [r \in Repos |-> FALSE]
    /\ baseRef = [r \in Repos |-> TRUE]

RollSpec == RollInit /\ [][RollNext]_vars

----------------------------------------------------------------------------
(* Removal of a forest that execute_plan created completely *)

\* new.rs 297-346: the refs of a source repository after `git worktree add` went
\* through for a plan of the given checkout kind
RefsAfterAdd(checkout) ==
    [local |-> TRUE, remote |-> checkout = "TrackRemote", base |-> TRUE]

\* new.rs execute_plan returned Ok and the caller took the result: every repository of
\* the template has its registered worktree, the metadata file lists them all
CreatedForest(kinds) ==
    /\ pc = "idle"
    /\ srcState = [r \in Repos |-> "ok"]
    /\ busy = {}
    /\ localRef = [r \in Repos |-> RefsAfterAdd(kinds[r]).local]
    /\ remoteRef = [r \in Repos |-> RefsAfterAdd(kinds[r]).remote]
    /\ baseRef = [r \in Repos |-> RefsAfterAdd(kinds[r]).base]
    /\ registered = [r \in Repos |-> TRUE]
    /\ baseDir = TRUE
    /\ forestDir = TRUE
    /\ metaFile = OkMeta([r \in Repos |-> RepoMetaOf([name |-> r, checkout |-> kinds[r]])])
    /\ wtDirs = Repos
    /\ extra = FALSE
    /\ dirty = [r \in Repos |-> FALSE]
    /\ branchState = FreshBranch
    /\ plan = <<>>
    /\ created = <<>>
    /\ memMeta = <<>>
    /\ idx = 0
    /\ newResult = NoNewResult
    /\ rmPlan = <<>>
    /\ force = FALSE
    /\ rmResult = NoRmResult
    /\ calls = {}

RmInit ==
    /\ \E kinds \in [Repos -> CheckoutKinds] : CreatedForest(kinds)
    /\ ResetAtRest
    /\ NamesAtRest
    /\ PathsAtRest
    /\ PlanAtRest
    /\ BaseAtRest
    /\ RollAtRest
    /\ vBg = 0
    /\ DiscoverAtRest

RmSpecNext == RmNext \/ Environment

RmSpec == RmInit /\ [][RmSpecNext]_vars

----------------------------------------------------------------------------
(* Creation retried after a failure: the branch the failed attempt made *)

\* new.rs 199-223: the plan of an attempt in which the first repository gets a new
\* branch and the others whatever their refs resolve to
FirstAttemptPlan(refs) ==
    [r \in Repos |->
       [name |-> r,
        checkout |-> IF r = 1 THEN "NewBranch"
                     ELSE IF refs[r].local THEN "ExistingLocal"
                     ELSE IF refs[r].remote THEN "TrackRemote"
                     ELSE "NewBranch"]]

\* new.rs 297-346: execute_plan at the failure of its second `git worktree add` (the
\* source repository is locked by another git process): the first worktree and its
\* new branch exist, the metadata lists it, and the rollback is about to start
RetryInit ==
    /\ pc = "new_rollback"
    /\ srcState = [r \in Repos |-> "ok"]
    /\ busy = {2}
    /\ \E refs \in [Repos -> {x \in InitialRefs : x.local \/ x.remote \/ x.base}] :
         /\ localRef = [r \in Repos |-> IF r = 1 THEN TRUE ELSE refs[r].local]
         /\ remoteRef = [r \in Repos |-> IF r = 1 THEN FALSE ELSE refs[r].remote]
         /\ baseRef = [r \in Repos |-> IF r = 1 THEN TRUE ELSE refs[r].base]
         /\ plan = FirstAttemptPlan(refs)
    /\ registered = [r \in Repos |-> r = 1]
    /\ baseDir = TRUE
    /\ forestDir = TRUE
    /\ metaFile = OkMeta(<<RepoMetaOf([name |-> 1, checkout |-> "NewBranch"])>>)
    /\ wtDirs = {1}
    /\ extra = FALSE
    /\ dirty = [r \in Repos |-> FALSE]
    /\ branchState = FreshBranch
    /\ created = <<1>>
    /\ memMeta = <<RepoMetaOf([name |-> 1, checkout |-> "NewBranch"])>>
    /\ idx = 1
    /\ newResult = [ErrResult("add", 2) EXCEPT !.status = "failing"]
    /\ rmPlan = <<>>
    /\ force = FALSE
    /\ rmResult = NoRmResult
    /\ calls = {[cmd |-> "create_dir", repo |-> 0], [cmd |-> "write_meta", repo |-> 0],
                [cmd |-> "worktree add", repo |-> 1], [cmd |-> "worktree add", repo |-> 2]}
    /\ ResetAtRest
    /\ NamesAtRest
    /\ PathsAtRest
    /\ PlanAtRest
    /\ BaseAtRest
    /\ RollAtRest
    /\ vBg = 0
    /\ DiscoverAtRest

RetrySpec == RetryInit /\ [][Next]_vars

----------------------------------------------------------------------------
(* Reset: plan_reset, execute_reset, cmd_reset *)

\* a directory scan that stops at the first forest it finds
ScanStopsAtFirst(S) ==
    IF S = {} THEN <<>> ELSE <<CHOOSE x \in S : \A y \in S : x <= y>>

\* the elements of a set of forests in ascending order (the order of the directory scan)
RECURSIVE ScanOrder(_)
ScanOrder(S) ==
    IF S = {} THEN <<>>
    ELSE LET m == CHOOSE x \in S : \A y \in S : x <= y
         IN <<m>> \o ScanOrder(S \ {m})

\* a plan_reset for which an unparsable configuration is fatal
plan_reset_needs_config(config_only) ==
    [bails |-> configFile = "corrupt" \/ (configFile = "absent" /\ ~stateFile),
     config_exists |-> configFile # "absent", state_exists |-> stateFile,
     config_only |-> config_only,
     forests |-> IF ~config_only /\ configFile = "ok" THEN ScanOrder(rDirs) ELSE <<>>,
     warnings |-> <<>>]

\* reset.rs plan_reset (bails: it fails, there is nothing to reset)
plan_reset(config_only) ==
    LET config_exists == configFile # "absent"
        scanned == ~config_only /\ config_exists
        forests == IF scanned /\ configFile = "ok" THEN ScanOrder(rDirs) ELSE <<>>
        warnings == IF scanned /\ configFile = "corrupt"
                    THEN <<"config exists but could not be parsed">> ELSE <<>>
    IN [bails |-> ~config_exists /\ ~stateFile /\ forests = <<>>,
        config_exists |-> config_exists, state_exists |-> stateFile,
        config_only |-> config_only, forests |-> forests, warnings |-> warnings]

\* reset.rs plan_to_dry_run
plan_to_dry_run(p) ==
    [status |-> "done", dry_run |-> TRUE, confirm_required |-> FALSE,
     config_file |-> [existed |-> p.config_exists, deleted |-> p.config_exists],
     state_file |-> [existed |-> p.state_exists, deleted |-> p.state_exists],
     forests |-> [i \in 1..Len(p.forests) |->
                    [name |-> p.forests[i], removed |-> p.forests[i] \in rDirs]],
     warnings |-> p.warnings, errors |-> <<>>]

\* reset.rs plan_to_confirm_required
plan_to_confirm_required(p) ==
    [plan_to_dry_run(p) EXCEPT !.dry_run = FALSE, !.confirm_required = TRUE]

\* a gate that lets a confirmed reset execute even when dry_run is set
ExecutesWhenConfirmed(confirm, dry_run) == confirm

\* reset.rs 284-292: cmd_reset reaches execute_reset
ExecutesReset(confirm, dry_run) == ~dry_run /\ confirm

\* reset.rs cmd_reset: plan_reset, then the three-mode gate
CmdReset ==
    /\ rpc = "idle"
    /\ \E confirm, config_only, dry_run \in BOOLEAN :
         LET p == plan_reset(config_only)
         IN /\ resetFlags' = [confirm |-> confirm, config_only |-> config_only,
                              dry_run |-> dry_run]
            /\ IF p.bails
               THEN /\ resetPlan' = NoResetPlan
                    /\ resetResult' = [NoResetResult EXCEPT !.status = "err"]
                    /\ rpc' = "reset_done"
                    /\ UNCHANGED <<rF, rR>>
               ELSE /\ resetPlan' = p
                    /\ IF ExecutesReset(confirm, dry_run)
                       THEN /\ resetResult' = [NoResetResult EXCEPT
                                                 !.status = "running",
                                                 !.config_file.existed = p.config_exists,
                                                 !.state_file.existed = p.state_exists,
                                                 !.warnings = p.warnings]
                            /\ rpc' = "reset_forests"
                            /\ rF' = 1
                            /\ rR' = 1
                       ELSE /\ resetResult' = IF dry_run THEN plan_to_dry_run(p)
                                              ELSE plan_to_confirm_required(p)
                            /\ rpc' = "reset_done"
                            /\ UNCHANGED <<rF, rR>>
    /\ UNCHANGED <<resetDisk, outsideReset>>

\* reset.rs 148-164: `git worktree remove --force` for one repository of the forest
\* being torn down; a failure is recorded and does not stop the teardown
ResetUnregister ==
    /\ rpc = "reset_forests"
    /\ rF <= Len(resetPlan.forests)
    /\ rR <= NumRepos
    /\ LET f == resetPlan.forests[rF]
       IN IF rR \in rSrc /\ <<f, rR>> \in rReg
          THEN /\ rReg' = rReg \ {<<f, rR>>}
               /\ UNCHANGED resetResult
          ELSE /\ resetResult' = [resetResult EXCEPT
                                    !.errors = Append(@, [kind |-> "worktree remove failed",
                                                          forest |-> f, repo |-> rR])]
               /\ UNCHANGED rReg
    /\ rR' = rR + 1
    /\ UNCHANGED <<rpc, configFile, stateFile, rDirs, rSrc, resetFlags, resetPlan, rF,
                   outsideReset>>

\* reset.rs 166-193: remove_dir_all of the forest directory, then the next forest
ResetRemoveDir ==
    /\ rpc = "reset_forests"
    /\ rF <= Len(resetPlan.forests)
    /\ rR > NumRepos
    /\ LET f == resetPlan.forests[rF]
       IN IF f \notin rDirs
          THEN /\ resetResult' = [resetResult EXCEPT
                                    !.forests = Append(@, [name |-> f, removed |-> FALSE])]
               /\ UNCHANGED rDirs
          ELSE \E ok \in BOOLEAN :
                 IF ok
                 THEN /\ rDirs' = rDirs \ {f}
                      /\ resetResult' = [resetResult EXCEPT
                                           !.forests = Append(@, [name |-> f,
                                                                  removed |-> TRUE])]
                 ELSE /\ UNCHANGED rDirs
                      /\ resetResult' = [resetResult EXCEPT
                                           !.forests = Append(@, [name |-> f,
                                                                  removed |-> FALSE]),
                                           !.errors = Append(@, [kind |-> "failed to remove forest",
                                                                 forest |-> f, repo |-> 0])]
    /\ rF' = rF + 1
    /\ rR' = 1
    /\ UNCHANGED <<rpc, configFile, stateFile, rReg, rSrc, resetFlags, resetPlan, outsideReset>>

\* an execute_reset that deletes the configuration file before the forest loop is over
DeletesFilesAnyTime(f, n) == TRUE

\* reset.rs 140-196: the files are deleted after the loop over plan.forests
ForestsProcessed(f, n) == f > n

\* an execute_reset that keeps the files once something went wrong
DeletesFileUnlessErrors(existed, errors) == existed /\ errors = <<>>

\* reset.rs 196, 202: `if plan.config_exists`, `if plan.state_exists`
DeletesFile(existed, errors) == existed

\* reset.rs delete_file / 196-200: the configuration file
ResetDeleteConfig ==
    /\ rpc = "reset_forests"
    /\ ForestsProcessed(rF, Len(resetPlan.forests))
    /\ IF DeletesFile(resetPlan.config_exists, resetResult.errors)
       THEN \E ok \in BOOLEAN :
              IF ok
              THEN /\ configFile' = "absent"
                   /\ resetResult' = [resetResult EXCEPT !.config_file.deleted = TRUE]
              ELSE /\ UNCHANGED configFile
                   /\ resetResult' = [resetResult EXCEPT
                                        !.errors = Append(@, [kind |-> "failed to delete",
                                                              forest |-> 0, repo |-> 0])]
       ELSE UNCHANGED <<configFile, resetResult>>
    /\ rpc' = "reset_state"
    /\ UNCHANGED <<stateFile, rDirs, rReg, rSrc, resetFlags, resetPlan, rF, rR, outsideReset>>

\* reset.rs delete_file / 202-225: the state file, and the result
ResetDeleteState ==
    /\ rpc = "reset_state"
    /\ IF DeletesFile(resetPlan.state_exists, resetResult.errors)
       THEN \E ok \in BOOLEAN :
              IF ok
              THEN /\ stateFile' = FALSE
                   /\ resetResult' = [resetResult EXCEPT !.state_file.deleted = TRUE,
                                                         !.status = "done"]
              ELSE /\ UNCHANGED stateFile
                   /\ resetResult' = [resetResult EXCEPT
                                        !.errors = Append(@, [kind |-> "failed to delete",
                                                              forest |-> 0, repo |-> 0]),
                                        !.status = "done"]
       ELSE /\ resetResult' = [resetResult EXCEPT !.status = "done"]
            /\ UNCHANGED stateFile
    /\ rpc' = "reset_done"
    /\ UNCHANGED <<configFile, rDirs, rReg, rSrc, resetFlags, resetPlan, rF, rR, outsideReset>>

\* the caller takes the result
ResetReturn ==
    /\ rpc = "reset_done"
    /\ rpc' = "idle"
    /\ resetFlags' = NoResetFlags
    /\ resetPlan' = NoResetPlan
    /\ resetResult' = NoResetResult
    /\ rF' = 0
    /\ rR' = 0
    /\ UNCHANGED <<resetDisk, outsideReset>>

\* `git forest init` writes the configuration file
ResetEnvInit ==
    /\ rpc = "idle"
    /\ configFile # "ok"
    /\ configFile' = "ok"
    /\ UNCHANGED <<rpc, stateFile, rDirs, rReg, rSrc, resetFlags, resetPlan, rF, rR,
                   resetResult, outsideReset>>

\* the user edits the configuration file into something unparsable
ResetEnvBreakConfig ==
    /\ rpc = "idle"
    /\ configFile = "ok"
    /\ configFile' = "corrupt"
    /\ UNCHANGED <<rpc, stateFile, rDirs, rReg, rSrc, resetFlags, resetPlan, rF, rR,
                   resetResult, outsideReset>>

\* the version check writes the state file
ResetEnvWriteState ==
    /\ rpc = "idle"
    /\ ~stateFile
    /\ stateFile' = TRUE
    /\ UNCHANGED <<rpc, configFile, rDirs, rReg, rSrc, resetFlags, resetPlan, rF, rR,
                   resetResult, outsideReset>>

\* `git forest new` creates forest f with a worktree in every source repository
ResetEnvNewForest(f) ==
    /\ rpc = "idle"
    /\ configFile = "ok"
    /\ rSrc = Repos
    /\ f \notin rDirs
    /\ \A r \in Repos : <<f, r>> \notin rReg
    /\ rDirs' = rDirs \cup {f}
    /\ rReg' = rReg \cup {<<f, r>> : r \in Repos}
    /\ UNCHANGED <<rpc, configFile, stateFile, rSrc, resetFlags, resetPlan, rF, rR,
                   resetResult, outsideReset>>

\* a source repository is deleted (its worktree registrations go with it)
ResetEnvRemoveSource(r) ==
    /\ rpc = "idle"
    /\ r \in rSrc
    /\ rSrc' = rSrc \ {r}
    /\ rReg' = {x \in rReg : x[2] # r}
    /\ UNCHANGED <<rpc, configFile, stateFile, rDirs, resetFlags, resetPlan, rF, rR,
                   resetResult, outsideReset>>

ResetNext ==
    \/ CmdReset
    \/ ResetUnregister
    \/ ResetRemoveDir
    \/ ResetDeleteConfig
    \/ ResetDeleteState
    \/ ResetReturn
    \/ ResetEnvInit
    \/ ResetEnvBreakConfig
    \/ ResetEnvWriteState
    \/ \E f \in Forests : ResetEnvNewForest(f)
    \/ \E r \in Repos : ResetEnvRemoveSource(r)

\* reset runs on an installation whose forest lifecycle is at rest
ResetInit ==
    /\ Init
    /\ localRef = [r \in Repos |-> FALSE]
    /\ remoteRef = [r \in Repos |-> FALSE]
    /\ baseRef = [r \in Repos |-> TRUE]

ResetSpec == ResetInit /\ [][ResetNext]_vars

----------------------------------------------------------------------------
(* The version check and reset *)

\* the most detached version checks in flight at one time
MaxBackground == 2

\* main.rs 32-40, 47-49, version_check.rs check_cache_and_notify: a command other
\* than reset has succeeded; the check is enabled and the cache is missing or stale,
\* so the state file is written and a detached subprocess is spawned (the spawn may
\* fail, which goes unnoticed)
VersionCheckAfterCommand ==
    /\ rpc = "idle"
    /\ vBg < MaxBackground
    /\ stateFile' = TRUE
    /\ \E spawned \in BOOLEAN : vBg' = IF spawned THEN vBg + 1 ELSE vBg
    /\ UNCHANGED <<rpc, configFile, rDirs, rReg, rSrc, resetFlags, resetPlan, rF, rR,
                   resetResult, outsideVersion>>

\* version_check.rs run_background_version_check: the subprocess ends; if the fetch
\* succeeded update_state writes the state file, creating it if it is not there
BackgroundCheckFinishes ==
    /\ vBg > 0
    /\ vBg' = vBg - 1
    /\ \E fetched \in BOOLEAN : stateFile' = IF fetched THEN TRUE ELSE stateFile
    /\ UNCHANGED <<rpc, configFile, rDirs, rReg, rSrc, resetFlags, resetPlan, rF, rR,
                   resetResult, outsideVersion>>

VersionNext ==
    \/ CmdReset
    \/ ResetUnregister
    \/ ResetRemoveDir
    \/ ResetDeleteConfig
    \/ ResetDeleteState
    \/ ResetReturn
    \/ ResetEnvInit
    \/ ResetEnvBreakConfig
    \/ \E f \in Forests : ResetEnvNewForest(f)
    \/ \E r \in Repos : ResetEnvRemoveSource(r)
    \/ VersionCheckAfterCommand
    \/ BackgroundCheckFinishes

VersionSpec == ResetInit /\ [][VersionNext]_vars

----------------------------------------------------------------------------
(* Reset: the directories it discovers and the directories it removes *)

\* reset.rs 82-83: forest_path = base.join(sanitize_forest_name(meta.name))
forest_path(meta_name, dir_name) == sanitize_forest_name(meta_name)

\* forest.rs discover_forests with reset.rs 79-97: one ForestInfo per directory that
\* holds a readable metadata file
DiscoveredForests ==
    {[name |-> dDisk[d].meta, path |-> forest_path(dDisk[d].meta, d),
      repos |-> dDisk[d].repos] : d \in {e \in DiscoverDirs : dDisk[e].kind = "forest"}}

\* the orders in which read_dir may hand out a set of entries
ScanOrders(S) ==
    {q \in [1..Cardinality(S) -> S] : \A i, j \in 1..Cardinality(S) : q[i] = q[j] => i = j}

\* `git forest new` creates a forest; complete: every worktree was added and the
\* metadata lists the repositories, otherwise execute_plan returned at a failed
\* metadata write and left the directory with the initial metadata
DiscoverEnvNew(name, complete) ==
    /\ dpc = "idle"
    /\ dDisk[sanitize_forest_name(name)].kind = "absent"
    /\ \A d \in DiscoverDirs : dDisk[d].meta # name
    /\ sanitize_forest_name(name) \notin dReg
    /\ dDisk' = [dDisk EXCEPT ![sanitize_forest_name(name)] = ForestDirOf(name, complete)]
    /\ dReg' = dReg \cup {sanitize_forest_name(name)}
    /\ UNCHANGED <<dpc, dPlan, dIdx, dResult, outsideDiscover>>

\* a user renames a directory; git keeps the worktrees registered under the old path
DiscoverEnvRename(d, e) ==
    /\ dpc = "idle"
    /\ dDisk[d].kind # "absent"
    /\ dDisk[e].kind = "absent"
    /\ dDisk' = [dDisk EXCEPT ![e] = dDisk[d], ![d] = NoDir]
    /\ UNCHANGED <<dpc, dReg, dPlan, dIdx, dResult, outsideDiscover>>

\* a user makes a directory of their own under the worktree base
DiscoverEnvMkdir(d) ==
    /\ dpc = "idle"
    /\ dDisk[d].kind = "absent"
    /\ dDisk' = [dDisk EXCEPT ![d] = PlainDir]
    /\ UNCHANGED <<dpc, dReg, dPlan, dIdx, dResult, outsideDiscover>>

\* reset.rs plan_reset and the gate of cmd_reset, for a confirmed full reset with a
\* readable configuration
DiscoverPlan ==
    /\ dpc = "idle"
    /\ \E order \in ScanOrders(DiscoveredForests) : dPlan' = order
    /\ dIdx' = 1
    /\ dResult' = NoDiscoverResult
    /\ dpc' = "teardown"
    /\ UNCHANGED <<dDisk, dReg, outsideDiscover>>

\* reset.rs 140-193: one forest of the plan: `git worktree remove --force` for its
\* repositories, then remove_dir_all of its path
DiscoverTearDown ==
    /\ dpc = "teardown"
    /\ dIdx <= Len(dPlan)
    /\ LET forest == dPlan[dIdx]
           \* git unregisters a worktree whose directory is gone or is the one it made
           itsOwn == \/ dDisk[forest.path].kind = "absent"
                     \/ dDisk[forest.path].meta = forest.name
           unregistered == forest.repos /\ forest.path \in dReg /\ itsOwn
           unregisterErr == IF forest.repos /\ ~unregistered
                            THEN <<[kind |-> "worktree remove failed", name |-> forest.name]>>
                            ELSE <<>>
       IN /\ dReg' = IF unregistered THEN dReg \ {forest.path} ELSE dReg
          /\ IF dDisk[forest.path].kind = "absent"
             THEN /\ dResult' = [forests |-> Append(dResult.forests,
                                                    [name |-> forest.name, path |-> forest.path,
                                                     removed |-> FALSE]),
                                 errors |-> dResult.errors \o unregisterErr]
                  /\ UNCHANGED dDisk
             ELSE \E ok \in BOOLEAN :
                    IF ok
                    THEN /\ dDisk' = [dDisk EXCEPT ![forest.path] = NoDir]
                         /\ dResult' = [forests |-> Append(dResult.forests,
                                                           [name |-> forest.name,
                                                            path |-> forest.path,
                                                            removed |-> TRUE]),
                                        errors |-> dResult.errors \o unregisterErr]
                    ELSE /\ UNCHANGED dDisk
                         /\ dResult' = [forests |-> Append(dResult.forests,
                                                           [name |-> forest.name,
                                                            path |-> forest.path,
                                                            removed |-> FALSE]),
                                        errors |-> dResult.errors \o unregisterErr
                                                   \o <<[kind |-> "failed to remove forest",
                                                         name |-> forest.name]>>]
    /\ dIdx' = dIdx + 1
    /\ UNCHANGED <<dpc, dPlan, outsideDiscover>>

\* reset.rs 196-225: the files are deleted and the result is returned
DiscoverFinish ==
    /\ dpc = "teardown"
    /\ dIdx > Len(dPlan)
    /\ dpc' = "done"
    /\ UNCHANGED <<dDisk, dReg, dPlan, dIdx, dResult, outsideDiscover>>

\* the caller takes the result
DiscoverReturn ==
    /\ dpc = "done"
    /\ dpc' = "idle"
    /\ dPlan' = <<>>
    /\ dIdx' = 0
    /\ dResult' = NoDiscoverResult
    /\ UNCHANGED <<dDisk, dReg, outsideDiscover>>

DiscoverNext ==
    \/ \E name \in DiscoverNames, complete \in BOOLEAN : DiscoverEnvNew(name, complete)
    \/ \E d, e \in DiscoverDirs : DiscoverEnvRename(d, e)
    \/ \E d \in DiscoverDirs : DiscoverEnvMkdir(d)
    \/ DiscoverPlan
    \/ DiscoverTearDown
    \/ DiscoverFinish
    \/ DiscoverReturn

DiscoverSpec == ResetInit /\ [][DiscoverNext]_vars

----------------------------------------------------------------------------
(* Creation of several forests under one worktree base: the collision checks *)

\* a match that compares directory names only
DirNameMatches(meta_name, dir_name, name_or_dir) ==
    dir_name = sanitize_forest_name(name_or_dir)

\* forest.rs 58-59: find_forest's test on one directory with a readable metadata file
NameMatches(meta_name, dir_name, name_or_dir) ==
    meta_name = name_or_dir \/ dir_name = sanitize_forest_name(name_or_dir)

\* forest.rs find_forest: the directories it can return (none: Ok(None))
find_forest(name_or_dir) ==
    {d \in nDirs : nMeta[d] # <<>> /\ NameMatches(nMeta[d], d, name_or_dir)}

\* paths.rs forest_dir, below the worktree base
forest_dir(name) == sanitize_forest_name(name)

\* new.rs 96, 139-156: the checks of plan_forest that concern the forest's name
NameError(name) ==
    IF ~ForestNameOk(name) THEN "invalid forest name"
    ELSE IF forest_dir(name) \in nDirs THEN "forest directory already exists"
    ELSE IF find_forest(name) # {} THEN "forest name collides with existing forest"
    ELSE "none"

\* new.rs plan_forest for name
NamesPlan(name) ==
    /\ npc = "idle"
    /\ nName' = name
    /\ IF NameError(name) # "none"
       THEN /\ nResult' = [status |-> "err", reason |-> NameError(name)]
            /\ npc' = "done"
       ELSE /\ nResult' = NoNameResult
            /\ npc' = "planned"
    /\ UNCHANGED <<nDirs, nMeta, outsideNames>>

\* new.rs execute_plan: create_dir, then the metadata file with the forest's name
\* (a failed write returns the error and leaves the directory)
NamesExecute ==
    /\ npc = "planned"
    /\ IF ~create_dir(forest_dir(nName) \in nDirs)
       THEN /\ nResult' = [status |-> "err", reason |-> "mkdir"]
            /\ UNCHANGED <<nDirs, nMeta>>
       ELSE /\ nDirs' = nDirs \cup {forest_dir(nName)}
            /\ \E ok \in BOOLEAN :
                 IF ok
                 THEN /\ nMeta' = [nMeta EXCEPT ![forest_dir(nName)] = nName]
                      /\ nResult' = [status |-> "ok", reason |-> "none"]
                 ELSE /\ UNCHANGED nMeta
                      /\ nResult' = [status |-> "err", reason |-> "meta"]
    /\ npc' = "done"
    /\ UNCHANGED <<nName, outsideNames>>

\* the caller takes the result
NamesReturn ==
    /\ npc = "done"
    /\ npc' = "idle"
    /\ nName' = <<>>
    /\ nResult' = NoNameResult
    /\ UNCHANGED <<nDirs, nMeta, outsideNames>>

\* a user renames a forest directory; the metadata file inside keeps the name
NamesEnvRename(d, e) ==
    /\ npc \in {"idle", "planned"}
    /\ d \in nDirs
    /\ e \notin nDirs
    /\ nDirs' = (nDirs \ {d}) \cup {e}
    /\ nMeta' = [nMeta EXCEPT ![e] = nMeta[d], ![d] = <<>>]
    /\ UNCHANGED <<npc, nName, nResult, outsideNames>>

\* `git forest rm` removes a forest directory
NamesEnvRemove(d) ==
    /\ npc = "idle"
    /\ d \in nDirs
    /\ nDirs' = nDirs \ {d}
    /\ nMeta' = [nMeta EXCEPT ![d] = <<>>]
    /\ UNCHANGED <<npc, nName, nResult, outsideNames>>

NamesNext ==
    \/ \E name \in ForestNames : NamesPlan(name)
    \/ NamesExecute
    \/ NamesReturn
    \/ \E d, e \in DirNames : NamesEnvRename(d, e)
    \/ \E d \in DirNames : NamesEnvRemove(d)

\* the collision checks run on an installation whose single-forest lifecycle is at rest
NamesInit ==
    /\ Init
    /\ localRef = [r \in Repos |-> FALSE]
    /\ remoteRef = [r \in Repos |-> FALSE]
    /\ baseRef = [r \in Repos |-> TRUE]

NamesSpec == NamesInit /\ [][NamesNext]_vars

----------------------------------------------------------------------------
(* The worktree paths that rollback, removal and reset act on *)

\* paths.rs RepoName::new accepts every non-empty string; the names a configuration
\* or a metadata file can hold, as the components Path parses them into
RepoNamePaths ==
    {[abs |-> FALSE, comps |-> <<"api">>],
     [abs |-> FALSE, comps |-> <<"web">>],
     [abs |-> FALSE, comps |-> <<"sub", "api">>],
     [abs |-> FALSE, comps |-> <<"..", "other">>],
     [abs |-> FALSE, comps |-> <<"api", "..", "..", "other">>],
     [abs |-> TRUE, comps |-> <<"tmp", "x">>]}

\* paths.rs forest_dir: forest directories under the worktree base
ForestDirPaths ==
    {[abs |-> TRUE, comps |-> <<"base", "f">>], [abs |-> TRUE, comps |-> <<"base", "g">>]}

\* PathBuf::join: an absolute argument replaces the path
join(base, path) ==
    IF path.abs THEN path
    ELSE [abs |-> base.abs, comps |-> base.comps \o path.comps]

\* a containment test that looks at where the path leads
leads_into(path, base) ==
    LET RECURSIVE walk(_, _)
        walk(todo, at) ==
            IF todo = <<>> THEN at
            ELSE IF Head(todo) = ".."
            THEN walk(Tail(todo), IF at = <<>> THEN <<>> ELSE SubSeq(at, 1, Len(at) - 1))
            ELSE walk(Tail(todo), Append(at, Head(todo)))
        p == walk(path.comps, <<>>)
        b == walk(base.comps, <<>>)
    IN /\ path.abs = base.abs
       /\ Len(b) < Len(p)
       /\ SubSeq(p, 1, Len(b)) = b

\* Path::starts_with: base's components are a prefix of path's, component by
\* component, with ".." left as it is written
starts_with(path, base) ==
    /\ path.abs = base.abs
    /\ Len(base.comps) <= Len(path.comps)
    /\ SubSeq(path.comps, 1, Len(base.comps)) = base.comps

\* new.rs 225, rm.rs 66, reset.rs 89: the worktree path of a repository
worktree_path(forest, name) == join(forest, name)

\* an operation starts on a forest whose plan (or metadata file) names these repositories
PathsStart(op, forest, names) ==
    /\ wpc = "idle"
    /\ wpc' = "running"
    /\ wOp' = op
    /\ wForest' = forest
    /\ wNames' = names
    /\ wIdx' = 1
    /\ wRemoved' = {}
    /\ UNCHANGED outsidePaths

\* new.rs 348-357, rm.rs 159-173, reset.rs 148-164: the assertion, then the removal
PathsRemove ==
    /\ wpc = "running"
    /\ wIdx <= Len(wNames)
    /\ LET target == worktree_path(wForest, wNames[wIdx])
       IN IF starts_with(target, wForest)
          THEN /\ wRemoved' = wRemoved \cup {target}
               /\ wIdx' = wIdx + 1
               /\ UNCHANGED wpc
          ELSE /\ wpc' = "aborted"
               /\ UNCHANGED <<wRemoved, wIdx>>
    /\ UNCHANGED <<wOp, wForest, wNames, outsidePaths>>

\* the loop is over
PathsFinish ==
    /\ wpc = "running"
    /\ wIdx > Len(wNames)
    /\ wpc' = "done"
    /\ UNCHANGED <<wOp, wForest, wNames, wIdx, wRemoved, outsidePaths>>

\* the operation has returned (or the process has died of the failed assertion)
PathsReturn ==
    /\ wpc \in {"aborted", "done"}
    /\ wpc' = "idle"
    /\ wOp' = "none"
    /\ wForest' = RootPath
    /\ wNames' = <<>>
    /\ wIdx' = 0
    /\ wRemoved' = {}
    /\ UNCHANGED outsidePaths

PathsNext ==
    \/ \E op \in {"rollback", "rm", "reset"}, forest \in ForestDirPaths,
          n \in 1..NumRepos :
          \E names \in [1..n -> RepoNamePaths] : PathsStart(op, forest, names)
    \/ PathsRemove
    \/ PathsFinish
    \/ PathsReturn

\* the paths are computed on an installation whose other operations are at rest
PathsInit ==
    /\ Init
    /\ localRef = [r \in Repos |-> FALSE]
    /\ remoteRef = [r \in Repos |-> FALSE]
    /\ baseRef = [r \in Repos |-> TRUE]

PathsSpec == PathsInit /\ [][PathsNext]_vars

----------------------------------------------------------------------------
(* plan_forest on its inputs: the order of the checks, the target branches *)

\* the most --repo-branch options of one request
MaxOverrides == 2

OriginRemote == <<"o", "r", "i", "g", "i", "n">>
RefsPrefix == <<"r", "e", "f", "s", "/">>
NamePlaceholder == <<"{", "n", "a", "m", "e", "}">>
ForestPrefix == <<"f", "o", "r", "e", "s", "t", "/">>

\* str::starts_with
StartsWith(str, prefix) ==
    Len(prefix) <= Len(str) /\ SubSeq(str, 1, Len(prefix)) = prefix

\* str::replace: every non-overlapping match of pattern, from the left
RECURSIVE Replace(_, _, _)
Replace(str, pattern, by) ==
    IF str = <<>> THEN <<>>
    ELSE IF StartsWith(str, pattern)
    THEN by \o Replace(SubSeq(str, Len(pattern) + 1, Len(str)), pattern, by)
    ELSE <<Head(str)>> \o Replace(Tail(str), pattern, by)

\* paths.rs BranchName::new succeeds
BranchNameOk(name, remote) ==
    /\ name # <<>>
    /\ ~StartsWith(name, RefsPrefix)
    /\ ~StartsWith(name, remote \o <<"/">>)

\* a target branch that lets the global override win over the per-repo one
compute_target_branch_global_first(repo_name, forest_name, mode, feature_branch_template, branch_override, repo_branches) ==
    LET hits == {i \in 1..Len(repo_branches) : repo_branches[i].repo = repo_name}
    IN IF branch_override # <<>> THEN branch_override[1]
       ELSE IF hits # {}
       THEN repo_branches[CHOOSE i \in hits : \A j \in hits : i <= j].branch
       ELSE IF mode = "Feature"
       THEN Replace(feature_branch_template, NamePlaceholder, forest_name)
       ELSE ForestPrefix \o forest_name

\* new.rs compute_target_branch (branch_override: <<>> is None, <<b>> is Some(b))
compute_target_branch(repo_name, forest_name, mode, feature_branch_template, branch_override, repo_branches) ==
    LET hits == {i \in 1..Len(repo_branches) : repo_branches[i].repo = repo_name}
    IN IF hits # {}
       THEN repo_branches[CHOOSE i \in hits : \A j \in hits : i <= j].branch
       ELSE IF branch_override # <<>> THEN branch_override[1]
       ELSE IF mode = "Feature"
       THEN Replace(feature_branch_template, NamePlaceholder, forest_name)
       ELSE ForestPrefix \o forest_name

TargetBranchOf(in, r) ==
    compute_target_branch(r, in.name, in.mode, in.template, in.branch_override,
                          in.repo_branches)

PlanCheckError(check) == [status |-> "err", check |-> check, plan |-> <<>>]

\* new.rs 187-235: the loop that builds the repo plans (validation of the computed
\* branch, then the branch resolution, which bails for a repository without the base
\* branch), repository by repository
RECURSIVE BuildPlans(_, _, _)
BuildPlans(in, r, acc) ==
    IF r > NumRepos THEN [status |-> "ok", check |-> "none", plan |-> acc]
    ELSE IF ~BranchNameOk(TargetBranchOf(in, r), OriginRemote)
    THEN PlanCheckError("branch name")
    ELSE IF in.no_base = r THEN PlanCheckError("base branch")
    ELSE BuildPlans(in, r + 1, Append(acc, [name |-> r, branch |-> TargetBranchOf(in, r)]))

\* new.rs 94-244: plan_forest on the request and on what it finds on disk
plan_forest(in) ==
    LET keys == [i \in 1..Len(in.repo_branches) |-> in.repo_branches[i].repo]
    IN IF ~ForestNameOk(in.name) THEN PlanCheckError("forest name")
       ELSE IF \E i, j \in 1..Len(keys) : i # j /\ keys[i] = keys[j]
       THEN PlanCheckError("repo-branch key")
       ELSE IF \E i \in 1..Len(keys) : keys[i] \notin Repos
       THEN PlanCheckError("repo-branch key")
       ELSE IF in.collision # "none" THEN PlanCheckError("collision")
       ELSE IF in.missing_source # 0 THEN PlanCheckError("source")
       ELSE IF in.branch_override # <<>>
               /\ ~BranchNameOk(in.branch_override[1], OriginRemote)
       THEN PlanCheckError("branch name")
       ELSE IF \E i \in 1..Len(in.repo_branches) :
                 ~BranchNameOk(in.repo_branches[i].branch, OriginRemote)
       THEN PlanCheckError("branch name")
       ELSE BuildPlans(in, 1, <<>>)

\* forest names of a request: plain, with slashes, and one ForestName::new rejects
RequestNames == {<<"a">>, <<"a", "/", "b", "/", "c">>, <<".", ".">>}

\* Feature branch patterns, in pieces: literal text, and <<>> where {name} stands
TemplatePieces ==
    {<< <<"f", "/">>, <<>> >>,
     << <<>>, <<"-">>, <<>> >>,
     << <<"x">>, <<>>, <<"{">> >>}

\* the text of a pattern in which `name` stands for every <<>> piece
RECURSIVE PatternText(_, _)
PatternText(pieces, name) ==
    IF pieces = <<>> THEN <<>>
    ELSE (IF Head(pieces) = <<>> THEN name ELSE Head(pieces))
         \o PatternText(Tail(pieces), name)

\* feature branch patterns as the configuration holds them (config.rs 195: they
\* contain {name})
BranchTemplates == {PatternText(pieces, NamePlaceholder) : pieces \in TemplatePieces}

\* branch names a caller passes: a valid one, another valid one, and an invalid one
GivenBranches == {<<"x">>, <<"y">>, OriginRemote \o <<"/", "x">>}

\* --repo-branch options: a known repository or an unknown one (0), and a branch
RepoBranchLists ==
    UNION {[1..n -> [repo : Repos \cup {0}, branch : {<<"y">>, <<>>}]] : n \in 0..MaxOverrides}

\* the requests plan_forest is given, and what it finds: a collision (the directory,
\* or a forest of that name found by the metadata scan), a missing source
\* repository, a repository without the base branch
PlanRequests ==
    [name : RequestNames, mode : {"Feature", "Review"},
     template : {<<"f", "/">> \o NamePlaceholder, RefsPrefix \o NamePlaceholder},
     branch_override : {<<>>, <<<<"x">>>>, <<OriginRemote \o <<"/", "x">>>>},
     repo_branches : RepoBranchLists,
     collision : {"none", "directory", "name"},
     missing_source : {0} \cup Repos,
     no_base : {0} \cup Repos]

\* new.rs plan_forest
PlanChecks(in) ==
    /\ qpc = "idle"
    /\ qpc' = "done"
    /\ qIn' = in
    /\ qOut' = plan_forest(in)
    /\ UNCHANGED <<qDirs, outsidePlan>>

\* the caller takes the plan or the error
PlanReturn ==
    /\ qpc = "done"
    /\ qpc' = "idle"
    /\ qIn' = NoPlanInputs
    /\ qOut' = NoPlanOutput
    /\ qDirs' = <<>>
    /\ UNCHANGED outsidePlan

PlanNext ==
    \/ (qpc = "idle" /\ \E in \in PlanRequests : PlanChecks(in))
    \/ PlanReturn

\* the planner runs on an installation whose operations are at rest
PlanInit ==
    /\ Init
    /\ localRef = [r \in Repos |-> FALSE]
    /\ remoteRef = [r \in Repos |-> FALSE]
    /\ baseRef = [r \in Repos |-> TRUE]

PlanSpec == PlanInit /\ [][PlanNext]_vars

\* the most times the forest directory of one request is computed
MaxComputations == 2

\* the worktree base of the template
WorktreeBase == [abs |-> TRUE, comps |-> <<"base">>]

\* paths.rs forest_dir: worktree_base.join(name.sanitized()); the sanitized name has
\* no separator and is one component
forest_dir_path(worktree_base, name) ==
    join(worktree_base, [abs |-> FALSE, comps |-> <<sanitize_forest_name(name)>>])

\* --repo-branch options with branches that tell the options apart
TargetBranchLists ==
    UNION {[1..n -> [repo : Repos \cup {0}, branch : {<<"y">>, <<"z">>}]] : n \in 0..MaxOverrides}

\* the inputs compute_target_branch and forest_dir are given
TargetRequests ==
    [name : {n \in RequestNames : ForestNameOk(n)}, mode : {"Feature", "Review"},
     template : BranchTemplates,
     branch_override : {<<>>} \cup {<<b>> : b \in GivenBranches},
     repo_branches : TargetBranchLists,
     collision : {"none"}, missing_source : {0}, no_base : {0}]

\* new.rs 187-196: compute_target_branch for every repository of the template
TargetBranches(in) ==
    /\ qpc = "idle"
    /\ qpc' = "done"
    /\ qIn' = in
    /\ qOut' = [status |-> "ok", check |-> "none",
                plan |-> [r \in Repos |-> [name |-> r, branch |-> TargetBranchOf(in, r)]]]
    /\ qDirs' = <<>>
    /\ UNCHANGED outsidePlan

\* paths.rs forest_dir, computed once more for the request
TargetForestDir ==
    /\ qpc = "done"
    /\ Len(qDirs) < MaxComputations
    /\ qDirs' = Append(qDirs, forest_dir_path(WorktreeBase, qIn.name))
    /\ UNCHANGED <<qpc, qIn, qOut, outsidePlan>>

TargetNext ==
    \/ (qpc = "idle" /\ \E in \in TargetRequests : TargetBranches(in))
    \/ TargetForestDir
    \/ PlanReturn

TargetSpec == PlanInit /\ [][TargetNext]_vars

----------------------------------------------------------------------------
(* Properties *)

ExecuteFailed ==
    pc = "new_done" /\ newResult.status = "err" /\ newResult.failStep \in {"mkdir", "meta", "add"}

\* C1: if execute_plan fails at the worktree-creation step of repository k, then when it
\* returns the error the forest directory does not exist and no worktree of any of the
\* repositories 1..k is registered in its source repository.
RollbackAtomicity ==
    (ExecuteFailed /\ newResult.failStep = "add")
        => /\ ~forestDir
           /\ \A i \in 1..newResult.failedAt : ~registered[plan[i].name]

\* C2: whenever execute_plan returns an error (failed worktree add, failed initial
\* metadata write, failed metadata rewrite), the forest directory this call created no
\* longer exists and none of the worktrees this call added remains.
NoHalfCreatedForest ==
    ExecuteFailed
        => /\ (newResult.failStep # "mkdir" => ~forestDir)
           /\ \A i \in 1..Len(created) :
                created[i] \notin wtDirs /\ ~registered[created[i]]

\* the step in which execute_rm, entered without force on a plan with a dirty
\* repository, returns
RefusedRmStep ==
    /\ pc = "rm_planned"
    /\ pc' # "rm_planned"
    /\ ~force
    /\ \E i \in 1..Len(rmPlan) : rmPlan[i].has_dirty_files

\* C3: execute_rm without force on a plan with a dirty repository touches nothing: no
\* worktree removed, no branch deleted, metadata file and forest directory still there,
\* forest_dir_removed false, exactly the dirty repositories Failed, all others Skipped.
DirtyPreflightTouchesNothing ==
    [][RefusedRmStep =>
         /\ pc' = "rm_done"
         /\ UNCHANGED <<wtDirs, registered, localRef, dirty, metaFile, forestDir, extra,
                        srcState, calls>>
         /\ calls' = {}
         /\ metaFile'.state = "ok"
         /\ forestDir'
         /\ rmResult'.forest_dir_removed = FALSE
         /\ Len(rmResult'.repos) = Len(rmPlan)
         /\ \A i \in 1..Len(rmPlan) :
              /\ rmResult'.repos[i].name = rmPlan[i].name
              /\ rmResult'.repos[i].worktree_removed =
                    (IF rmPlan[i].has_dirty_files THEN "Failed" ELSE "Skipped")
              /\ rmResult'.repos[i].branch_deleted = "Skipped"]_vars

DirtyPreflightRefused ==
    /\ pc = "rm_done"
    /\ ~rmResult.dry_run
    /\ ~force
    /\ \E i, j \in 1..Len(rmPlan) :
         /\ rmPlan[i].has_dirty_files
         /\ ~rmPlan[j].has_dirty_files
         /\ rmResult.repos[i].worktree_removed = "Failed"
         /\ rmResult.repos[j].worktree_removed = "Skipped"
         /\ rmPlan[j].name \in wtDirs

BranchDeleteCmds == {"branch -d", "branch -D"}

\* the repositories of the removal plan whose branch the forest did not create
NotCreatedByForest == {rmPlan[i].name : i \in {j \in 1..Len(rmPlan) : ~rmPlan[j].branch_created}}

\* C4: for either value of force, execute_rm neither deletes nor attempts to delete the
\* branch of a repository whose branch_created flag is false.
UncreatedBranchesAreKept ==
    [][pc = "rm_loop" =>
         /\ \A r \in NotCreatedByForest : localRef'[r] = localRef[r]
         /\ \A c \in calls' : c.cmd \in BranchDeleteCmds => c.repo \notin NotCreatedByForest]_vars

UncreatedBranchKept ==
    /\ pc = "rm_done"
    /\ ~rmResult.dry_run
    /\ \E i \in 1..Len(rmPlan) :
         /\ ~rmPlan[i].branch_created
         /\ rmResult.repos[i].worktree_removed = "Success"
         /\ rmResult.repos[i].branch_deleted = "Skipped"
         /\ localRef[rmPlan[i].name]

\* the branch is an ancestor of its base branch, or has an upstream with nothing unpushed
MergedOrPushed(bs) == bs.ancestor \/ (bs.upstream /\ ~bs.unpushed)

\* the step of execute_rm's loop that handles repository rmPlan[idx]
RmRepoStep == pc = "rm_loop" /\ idx <= Len(rmPlan) /\ idx' = idx + 1

\* C5: without force, when `git branch -d` of a forest-created branch is rejected, the
\* branch is deleted only if it is an ancestor of its base branch or has an upstream with
\* zero commits not in it; otherwise it is left in place, its outcome is Failed and an
\* error suggesting force is recorded.
UnsafeBranchIsKept ==
    [][(RmRepoStep /\ ~force) =>
         LET r == rmPlan[idx].name
             tried == {c.cmd : c \in {d \in calls' \ calls : d.repo = r}} \cap BranchDeleteCmds
             res == rmResult'.repos[idx]
             rejected == /\ "branch -d" \in tried
                         /\ ~(res.branch_deleted = "Success" /\ tried = {"branch -d"})
         IN rejected =>
              /\ (localRef[r] /\ ~localRef'[r]) => MergedOrPushed(branchState')
              /\ ~MergedOrPushed(branchState') =>
                   /\ localRef'[r] = localRef[r]
                   /\ res.branch_deleted = "Failed"
                   /\ rmResult'.errors[Len(rmResult'.errors)] =
                        [kind |-> "not fully merged, hint: --force", repo |-> r]]_vars

UnpushedBranchKept ==
    /\ pc = "rm_loop"
    /\ idx > 1
    /\ ~force
    /\ rmPlan[idx - 1].branch_created
    /\ ~branchState.merged /\ ~branchState.ancestor
    /\ branchState.upstream /\ branchState.unpushed
    /\ [cmd |-> "branch -d", repo |-> rmPlan[idx - 1].name] \in calls
    /\ rmResult.repos[idx - 1].branch_deleted = "Failed"
    /\ localRef[rmPlan[idx - 1].name]

\* C6: execute_rm attempts to remove the forest directory only if no error was recorded
\* for any repository; forest_dir_removed = true implies the error list is empty.
ForestDirRemovedOnlyWithoutErrors ==
    pc \in {"rm_loop", "rm_done"} =>
        /\ [cmd |-> "remove forest dir", repo |-> 0] \in calls =>
              \A i \in 1..Len(rmResult.errors) : rmResult.errors[i].repo = 0
        /\ rmResult.forest_dir_removed => rmResult.errors = <<>>

ForestDirRemoved ==
    /\ pc = "rm_done"
    /\ rmResult.forest_dir_removed
    /\ Len(rmPlan) = NumRepos
    /\ ~forestDir

\* C7: whenever a removal ends with a non-empty error list, the forest's metadata file
\* still exists on disk.
FailedRemovalKeepsMeta ==
    (pc = "rm_done" /\ rmResult.errors # <<>>) => metaFile.state = "ok"

CreationRunning == pc \in {"new_add", "new_meta", "new_rollback"} \/ ExecuteFailed
                   \/ (pc = "new_done" /\ newResult.status = "ok" /\ ~newResult.dry_run)

MetaNames == {metaFile.repos[i].name : i \in 1..Len(metaFile.repos)}

\* C8: at every point during forest creation, rollback included, and after it, the
\* on-disk metadata lists exactly the worktrees that exist in the forest directory,
\* never a repository whose worktree does not exist, and is a prefix of the plan.
MetaListsExactlyTheWorktrees ==
    (CreationRunning /\ metaFile.state = "ok") =>
        /\ MetaNames = wtDirs
        /\ Len(metaFile.repos) <= Len(plan)
        /\ \A i \in 1..Len(metaFile.repos) : metaFile.repos[i].name = plan[i].name

ExecuteSucceeded == pc = "new_done" /\ newResult.status = "ok" /\ ~newResult.dry_run

\* C9: after execute_plan returns successfully the on-disk ForestMeta.repos has exactly
\* one entry per planned repository, in plan order, and as many entries as there are
\* worktree subdirectories in the forest directory, which holds nothing else.
MetaMatchesPlan ==
    ExecuteSucceeded =>
        /\ metaFile.state = "ok"
        /\ Len(metaFile.repos) = Len(plan)
        /\ \A i \in 1..Len(plan) : metaFile.repos[i].name = plan[i].name
        /\ Len(metaFile.repos) = Cardinality(wtDirs)
        /\ wtDirs = MetaNames
        /\ ~extra

ForestCreated == ExecuteSucceeded /\ Len(plan) = NumRepos /\ Cardinality(wtDirs) = NumRepos

\* C10: in the returned result (real or dry-run) and in the persisted RepoMeta,
\* branch_created is true if and only if the repository's CheckoutKind is NewBranch.
BranchCreatedIffNewBranch ==
    /\ (pc = "new_done" /\ newResult.status = "ok") =>
          /\ Len(newResult.repos) = Len(plan)
          /\ \A i \in 1..Len(plan) :
               /\ newResult.repos[i].name = plan[i].name
               /\ newResult.repos[i].branch_created <=> plan[i].checkout = "NewBranch"
    /\ (pc \in {"new_add", "new_meta", "new_rollback", "new_done"}
        /\ metaFile.state = "ok") =>
          \A i \in 1..Len(metaFile.repos) :
            \A j \in 1..Len(plan) :
              plan[j].name = metaFile.repos[i].name =>
                (metaFile.repos[i].branch_created <=> plan[j].checkout = "NewBranch")

MixedCheckoutKindsCreated ==
    /\ ExecuteSucceeded
    /\ \E i, j \in 1..Len(plan) :
         /\ plan[i].checkout = "NewBranch" /\ metaFile.repos[i].branch_created
         /\ plan[j].checkout = "TrackRemote" /\ ~metaFile.repos[j].branch_created

\* what a failed creation can leave behind that stops the same creation when it is
\* tried again: the forest directory (plan_forest's collision check), or a worktree
\* directory or registration at a planned destination (`git worktree add`)
RetryBlocked ==
    \/ PlanError("none") = "forest directory already exists"
    \/ \E r \in Repos : registered[r] \/ r \in wtDirs

\* C11: if creating the forest fails partway (after execute_plan created the forest
\* directory), creating it again with the same name and inputs is not blocked by a
\* directory or a worktree registration left over from the failed attempt.
RetryIsNotBlocked ==
    (ExecuteFailed /\ newResult.failStep \in {"add", "meta"}) => ~RetryBlocked

\* a real (not dry-run) removal has returned for a forest that `new` created in full
RmReturned == pc = "rm_done" /\ ~rmResult.dry_run /\ Len(rmPlan) = NumRepos

ResetIsPreview == ~(resetFlags.confirm /\ ~resetFlags.dry_run)

\* C13: cmd_reset changes nothing on disk unless confirm is set and dry_run is not;
\* with dry_run it returns the would-be result, and with neither flag the same
\* preview flagged confirm_required. Any step of a reset that changes the
\* configuration file, the state file, a forest directory or a registration belongs
\* to a call with confirm and without dry_run.
ResetNeedsConfirmation ==
    [][/\ (rpc = "idle" /\ rpc' # "idle") =>
            LET p == plan_reset(resetFlags'.config_only)
            IN /\ UNCHANGED resetDisk
               /\ ResetIsPreview' => rpc' = "reset_done"
               /\ (~p.bails /\ resetFlags'.dry_run) =>
                     /\ resetResult' = plan_to_dry_run(p)
                     /\ resetResult'.dry_run /\ ~resetResult'.confirm_required
               /\ (~p.bails /\ ~resetFlags'.dry_run /\ ~resetFlags'.confirm) =>
                     /\ resetResult' = [plan_to_dry_run(p) EXCEPT !.dry_run = FALSE,
                                                                  !.confirm_required = TRUE]
       /\ (rpc # "idle" /\ resetDisk' # resetDisk) => ~ResetIsPreview
      ]_vars

\* a reset called with both confirm and dry_run returned the preview of removing
\* every forest, and everything is still on disk
ConfirmedDryRunPreviewed ==
    /\ rpc = "reset_done"
    /\ resetFlags.confirm /\ resetFlags.dry_run
    /\ resetResult.dry_run /\ ~resetResult.confirm_required
    /\ Len(resetResult.forests) = NumForests
    /\ \A i \in 1..NumForests : resetResult.forests[i].removed
    /\ resetResult.config_file.deleted
    /\ rDirs = Forests
    /\ configFile = "ok"
    /\ rReg # {}

\* C14: in an executing reset every forest's teardown (the unregistrations, then
\* the removal of the directory) happens while the configuration file still exists,
\* and the configuration and state files are deleted after the last forest.
ForestsGoBeforeFiles ==
    [][rpc # "idle" =>
         /\ (rReg' # rReg \/ rDirs' # rDirs) =>
               /\ configFile # "absent"
               /\ UNCHANGED <<configFile, stateFile>>
               /\ ~resetResult.config_file.deleted /\ ~resetResult.state_file.deleted
         /\ rReg' # rReg => resetPlan.forests[rF] \in rDirs
         /\ rDirs' # rDirs => rR > NumRepos
         /\ (configFile' # configFile \/ stateFile' # stateFile) =>
               /\ rF > Len(resetPlan.forests)
               /\ Len(resetResult.forests) = Len(resetPlan.forests)
               /\ UNCHANGED <<rDirs, rReg>>
         /\ stateFile' # stateFile => rpc = "reset_state"
      ]_vars

\* an executing reset tore down every forest and then deleted both files
EverythingReset ==
    /\ rpc = "reset_done"
    /\ resetResult.status = "done"
    /\ ~resetResult.dry_run /\ ~resetResult.confirm_required
    /\ Len(resetResult.forests) = NumForests
    /\ \A i \in 1..NumForests : resetResult.forests[i].removed
    /\ resetResult.errors = <<>>
    /\ resetResult.config_file.deleted /\ resetResult.state_file.deleted
    /\ configFile = "absent" /\ ~stateFile
    /\ rDirs = {} /\ rReg = {}

\* the step of cmd_new that returns the result of a dry run
DryRunNewStep == pc = "idle" /\ pc' = "new_done" /\ newResult'.dry_run

\* C15: forest creation with dry_run returns the planned result without touching any
\* external state: it creates no directory, writes no file, and runs no
\* state-changing git command in any repository.
DryRunNewTouchesNothing ==
    [][DryRunNewStep => (UNCHANGED <<envVars, baseDir>> /\ calls' = {})]_vars

\* the step of cmd_rm that returns the result of a dry run
DryRunRmStep == pc = "idle" /\ pc' = "rm_done" /\ rmResult'.dry_run

\* C16: forest removal with dry_run performs no mutation, and when force is not set
\* and some repository is dirty it reports the rejection of the real run: dirty
\* repositories Failed, all others Skipped, forest_dir_removed false, and the same
\* error list.
DryRunRmPreviewsRefusal ==
    [][DryRunRmStep =>
         /\ UNCHANGED <<envVars, baseDir>>
         /\ calls' = {}
         /\ PreflightBlocks(rmPlan', force') =>
               /\ rmResult'.repos = PreflightRefusal(rmPlan').repos
               /\ rmResult'.errors = PreflightRefusal(rmPlan').errors
               /\ rmResult'.forest_dir_removed = FALSE
               /\ \A i \in 1..Len(rmPlan') :
                     /\ rmResult'.repos[i].worktree_removed =
                           (IF rmPlan'[i].has_dirty_files THEN "Failed" ELSE "Skipped")
                     /\ rmResult'.repos[i].branch_deleted = "Skipped"
      ]_vars

\* a dry run without force previewed the rejection of a forest with a dirty and a
\* clean worktree, and the forest is still there
DryRunRefusalPreviewed ==
    /\ pc = "rm_done"
    /\ rmResult.dry_run
    /\ ~force
    /\ \E i, j \in 1..Len(rmPlan) : rmPlan[i].has_dirty_files /\ ~rmPlan[j].has_dirty_files
    /\ ~rmResult.forest_dir_removed
    /\ Len(rmResult.errors) = 2
    /\ forestDir /\ wtDirs = Repos

\* a real execute_rm returned and every operation it attempted succeeded (each
\* failure leaves an error; the refusal of the preflight attempts nothing)
RmReturnedAllSucceeded ==
    /\ pc = "rm_done"
    /\ ~rmResult.dry_run
    /\ rmResult.errors = <<>> \/ PreflightBlocks(rmPlan, force)

\* C17: for every removal plan and either value of force, the per-repository
\* worktree and branch outcomes and forest_dir_removed reported by the dry run equal
\* those of a real execute_rm on the same plan in which every operation it attempts
\* succeeds.
DryRunRmEqualsRealRun ==
    RmReturnedAllSucceeded =>
       LET d == plan_to_dry_run_result(rmPlan, force)
       IN /\ Len(rmResult.repos) = Len(d.repos)
          /\ \A i \in 1..Len(d.repos) :
                /\ rmResult.repos[i].worktree_removed = d.repos[i].worktree_removed
                /\ rmResult.repos[i].branch_deleted = d.repos[i].branch_deleted
          /\ rmResult.forest_dir_removed = d.forest_dir_removed

\* the step of cmd_new that returns a validation or precondition error of plan_forest
PlanErrorStep ==
    pc = "idle" /\ pc' = "new_done" /\ newResult'.status = "err" /\ newResult'.failStep = "plan"

\* C18: whenever forest creation fails with a validation or precondition error, the
\* operation aborts with no side effects: nothing on the filesystem and nothing in
\* any repository has been changed.
PlanErrorHasNoSideEffects ==
    [][PlanErrorStep => (UNCHANGED <<envVars, baseDir>> /\ calls' = {})]_vars

\* C20: if the forest directory comes into existence between planning and
\* execution, execute_plan fails at its first step, creates no worktree, and leaves
\* the already-existing directory and its contents unmodified.
RaceOnForestDirIsDetected ==
    [][(pc = "new_planned" /\ pc' # "new_planned" /\ forestDir) =>
         /\ pc' = "new_done"
         /\ newResult'.status = "err" /\ newResult'.failStep = "mkdir"
         /\ calls' = {[cmd |-> "create_dir", repo |-> 0]}
         /\ UNCHANGED <<envVars, baseDir, created>>
      ]_vars

\* execute_plan failed at create_dir on a directory that appeared after planning;
\* the directory and the file in it are still there and no worktree exists
RaceOnForestDirLost ==
    /\ pc = "new_done"
    /\ newResult.status = "err" /\ newResult.failStep = "mkdir"
    /\ forestDir /\ extra
    /\ metaFile = AbsentMeta
    /\ wtDirs = {}
    /\ \A r \in Repos : ~registered[r]

\* the forests discover_forests finds under the worktree base: <<directory, name>>
NamedForests == {<<d, nMeta[d]>> : d \in {e \in nDirs : nMeta[e] # <<>>}}

\* plan_forest is called with a valid name whose directory exists or which an
\* existing forest carries
NameCollides(name) ==
    /\ ForestNameOk(name)
    /\ \/ forest_dir(name) \in nDirs
       \/ \E x \in NamedForests : x[2] = name

\* C19: plan_forest fails if a directory already exists at the target forest path
\* or if an existing forest under the worktree base has a colliding name (by the
\* scan of the metadata files); hence after any sequence of creations no two forests
\* under one worktree base share a logical name or a directory.
ForestNamesAreUnique ==
    /\ [](\A x, y \in NamedForests : x # y => (x[1] # y[1] /\ x[2] # y[2]))
    /\ [][(npc = "idle" /\ npc' # "idle" /\ NameCollides(nName')) =>
            /\ npc' = "done"
            /\ nResult'.status = "err"
            /\ UNCHANGED <<nDirs, nMeta>>
        ]_vars

\* a creation was refused by the scan of the metadata files alone: the forest of
\* that name lives in a renamed directory, next to another forest
RefusedByMetaScan ==
    /\ npc = "done"
    /\ nResult.status = "err"
    /\ nResult.reason = "forest name collides with existing forest"
    /\ forest_dir(nName) \notin nDirs
    /\ \E x \in NamedForests : x[2] = nName
    /\ Cardinality(NamedForests) >= 2

\* a real execute_rm got past the preflight and returned
RmLoopReturned == pc = "rm_done" /\ ~rmResult.dry_run /\ ~PreflightBlocks(rmPlan, force)

WorktreeCalls == {"worktree remove", "fs remove_dir_all"}

\* C22: when the dirty preflight passes or is bypassed, execute_rm attempts every
\* repository in plan order whatever failed before, returns exactly one result entry
\* per planned repository in plan order, returns the aggregated errors as a value,
\* and never undoes a removal that succeeded.
RmIsBestEffort ==
    /\ [](RmLoopReturned =>
            /\ rmResult.status = "done"
            /\ Len(rmResult.repos) = Len(rmPlan)
            /\ \A i \in 1..Len(rmPlan) :
                  /\ rmResult.repos[i].name = rmPlan[i].name
                  /\ (rmPlan[i].worktree_exists =>
                        \E c \in calls : c.repo = rmPlan[i].name /\ c.cmd \in WorktreeCalls)
                  /\ (rmResult.repos[i].worktree_removed = "Success" =>
                        (rmPlan[i].name \notin wtDirs /\ ~registered[rmPlan[i].name])))
    /\ [][pc = "rm_loop" =>
            /\ wtDirs' \subseteq wtDirs
            /\ \A r \in Repos : (registered'[r] => registered[r])
            /\ \A r \in Repos : (localRef'[r] => localRef[r])
            /\ Len(rmResult'.repos) >= Len(rmResult.repos)
            /\ SubSeq(rmResult'.repos, 1, Len(rmResult.repos)) = rmResult.repos
            /\ SubSeq(rmResult'.errors, 1, Len(rmResult.errors)) = rmResult.errors
        ]_vars

\* the removal of the first repository failed and the second was removed all the same
RemovedAfterEarlierFailure ==
    /\ RmLoopReturned
    /\ Len(rmPlan) = NumRepos
    /\ rmResult.repos[1].worktree_removed = "Failed"
    /\ rmResult.repos[NumRepos].worktree_removed = "Success"
    /\ rmResult.errors # <<>>
    /\ ~rmResult.forest_dir_removed
    /\ rmPlan[NumRepos].name \notin wtDirs

\* C23: with force, execute_rm skips the dirty preflight even when repositories are
\* dirty, passes the force flag to the removal of the worktree (git then removes a
\* dirty worktree), and deletes every forest-created branch with `git branch -D`
\* alone, whatever git would answer about merge, ancestor or upstream.
ForceSkipsEveryCheck ==
    [][/\ (pc = "rm_planned" /\ pc' # "rm_planned" /\ force) => pc' = "rm_loop"
       /\ (pc = "rm_loop" /\ idx <= Len(rmPlan) /\ force) =>
            LET rp == rmPlan[idx]
                r == rp.name
                out == rmResult'.repos[idx]
            IN /\ (rp.worktree_exists /\ rp.source_exists /\ GitUsable(r) /\ registered[r])
                     => (out.worktree_removed = "Success" /\ r \notin wtDirs')
               /\ [cmd |-> "branch -d", repo |-> r] \notin calls'
               /\ (rp.branch_created /\ rp.source_exists /\ out.worktree_removed # "Failed")
                     => /\ [cmd |-> "branch -D", repo |-> r] \in calls'
                        /\ (GitUsable(r) /\ localRef[r] /\ ~registered'[r])
                              => (out.branch_deleted = "Success" /\ ~localRef'[r])
                        /\ \A bs \in BranchStates :
                              delete_branch(rp, TRUE, TRUE, registered'[r], bs).outcome
                                 = out.branch_deleted
      ]_vars

\* a forced removal went through a forest with a dirty worktree: every worktree and
\* every forest-created branch is gone, and so is the forest directory
DirtyForestForcedAway ==
    /\ RmLoopReturned
    /\ force
    /\ Len(rmPlan) = NumRepos
    /\ \E i \in 1..Len(rmPlan) : rmPlan[i].has_dirty_files
    /\ \A i \in 1..Len(rmPlan) :
          /\ rmPlan[i].branch_created
          /\ rmResult.repos[i].worktree_removed = "Success"
          /\ rmResult.repos[i].branch_deleted = "Success"
          /\ ~localRef[rmPlan[i].name]
    /\ rmResult.forest_dir_removed
    /\ ~forestDir

\* the `git branch` calls for repository r among the calls cs
BranchCallsFor(cs, r) == {c \in cs : c.repo = r /\ c.cmd \in BranchDeleteCmds}

\* C29: within one repository's removal the branch deletion is attempted only after
\* that repository's worktree step has succeeded (removed, or already absent) and
\* only if the source repository was reachable at plan time; otherwise the branch
\* step is Skipped, the branch is untouched, and no error is recorded for it.
BranchWaitsForWorktree ==
    [][(pc = "rm_loop" /\ idx <= Len(rmPlan)) =>
         LET rp == rmPlan[idx]
             r == rp.name
             out == rmResult'.repos[idx]
             wtFailed == out.worktree_removed = "Failed"
         IN /\ BranchCallsFor(calls, r) = {}
            /\ BranchCallsFor(calls', r) # {} =>
                  /\ out.worktree_removed \in {"Success", "Skipped"}
                  /\ out.worktree_removed = "Success" => r \notin wtDirs'
                  /\ out.worktree_removed = "Skipped" => ~rp.worktree_exists
                  /\ rp.source_exists
            /\ (wtFailed \/ ~rp.source_exists) =>
                  /\ out.branch_deleted = "Skipped"
                  /\ BranchCallsFor(calls', r) = {}
                  /\ localRef'[r] = localRef[r]
                  /\ Len(rmResult'.errors) =
                        Len(rmResult.errors) + (IF wtFailed THEN 1 ELSE 0)
      ]_vars

\* the worktree of a repository could not be removed: its forest-created branch was
\* skipped and is still there, and the only error is the one of the worktree step
BranchSkippedAfterFailedWorktree ==
    /\ RmLoopReturned
    /\ Len(rmPlan) = NumRepos
    /\ rmPlan[1].branch_created /\ rmPlan[1].source_exists
    /\ rmResult.repos[1].worktree_removed = "Failed"
    /\ rmResult.repos[1].branch_deleted = "Skipped"
    /\ localRef[rmPlan[1].name]
    /\ rmResult.repos[NumRepos].branch_deleted = "Success"
    /\ Len(rmResult.errors) = 1

\* the step of execute_rm that removes the forest directory, without force
UnforcedDirRemovalStep ==
    pc = "rm_loop" /\ pc' = "rm_done" /\ ~force /\ MayRemoveForestDir(rmResult.errors)

\* C30: without force, removing the forest directory never deletes anything other
\* than the metadata file and the then-empty directory: if anything unexpected
\* remains in the directory, its contents are kept, the directory is not removed,
\* and an error is recorded.
UnforcedRemovalKeepsContents ==
    [][UnforcedDirRemovalStep =>
         /\ wtDirs' = wtDirs
         /\ extra' = extra
         /\ UNCHANGED <<registered, localRef, srcState, baseDir>>
         /\ forestDir # forestDir' => (wtDirs = {} /\ ~extra)
         /\ (forestDir /\ (wtDirs # {} \/ extra)) =>
               /\ forestDir'
               /\ ~rmResult'.forest_dir_removed
               /\ Len(rmResult'.errors) = 1
               /\ rmResult'.errors[1].kind = "forest directory not removed (not empty)"
      ]_vars

\* an unforced removal found a foreign file in the forest directory: the file and
\* the directory are still there and the error is reported
ForeignFileKeptForestDir ==
    /\ RmLoopReturned
    /\ ~force
    /\ Len(rmPlan) = NumRepos
    /\ \A i \in 1..Len(rmPlan) : rmResult.repos[i].worktree_removed = "Success"
    /\ extra /\ forestDir /\ wtDirs = {}
    /\ ~rmResult.forest_dir_removed
    /\ Len(rmResult.errors) = 1

\* the step in which cmd_new's plan_forest returns (a plan, or an error)
PlanForestReturns ==
    pc = "idle" /\ pc' \in {"new_planned", "new_done"} /\ newResult'.failStep # "fetch"

\* C26: for each repository the planner resolves CheckoutKind as ExistingLocal if the
\* branch exists as a local ref; otherwise TrackRemote if it exists as a
\* remote-tracking ref; otherwise NewBranch only if <remote>/<base_branch> exists, and
\* if it does not, planning fails naming the missing base branch and returns no plan.
\* (plan_forest reads the refs as the fetch left them.)
CheckoutKindResolution ==
    [][PlanForestReturns =>
         LET unresolvable == {r \in Repos : ~localRef'[r] /\ ~remoteRef'[r] /\ ~baseRef'[r]}
         IN /\ newResult'.status = "err" => plan' = <<>>
            /\ newResult'.status # "err" => Len(plan') = NumRepos
            /\ \A i \in 1..Len(plan') :
                  LET r == plan'[i].name
                      kind == plan'[i].checkout
                  IN /\ kind \in CheckoutKinds
                     /\ kind = "ExistingLocal" <=> localRef'[r]
                     /\ kind = "TrackRemote" <=> (~localRef'[r] /\ remoteRef'[r])
                     /\ kind = "NewBranch" <=> (~localRef'[r] /\ ~remoteRef'[r])
                     /\ kind = "NewBranch" => baseRef'[r]
            /\ unresolvable # {} => newResult'.status = "err"
            /\ newResult'.reason = "base branch missing" => unresolvable # {}
            /\ (unresolvable # {} /\ PlanError("none")' \notin
                    {"forest directory already exists", "source repo not found"}
                 /\ newResult'.reason \notin InputFaults)
                  => newResult'.reason = "base branch missing"
      ]_vars

\* planning failed because a repository has neither the branch nor the base branch,
\* while another repository resolved to an existing local branch
BaseBranchMissingReported ==
    /\ pc = "new_done"
    /\ newResult.status = "err"
    /\ newResult.reason = "base branch missing"
    /\ plan = <<>>
    /\ \E r \in Repos : ~localRef[r] /\ ~remoteRef[r] /\ ~baseRef[r]
    /\ \E r \in Repos : localRef[r]
    /\ ~forestDir

\* C21: every worktree path that creation rollback, forest removal, or reset
\* unregisters or deletes is a child of the forest directory of the forest being
\* operated on; if a target path is not inside that directory the operation aborts
\* before removing it.
RemovedPathsAreInsideForest ==
    /\ \A path \in wRemoved : leads_into(path, wForest)
    /\ wpc = "aborted" => ~leads_into(worktree_path(wForest, wNames[wIdx]), wForest)

\* the five checks of the planner, in the order the specification gives, as the
\* request violates them
ViolatedChecks(in) ==
    LET keys == {in.repo_branches[i].repo : i \in 1..Len(in.repo_branches)}
        given == (IF in.branch_override = <<>> THEN {} ELSE {in.branch_override[1]})
                   \cup {in.repo_branches[i].branch : i \in 1..Len(in.repo_branches)}
    IN <<in.name \in {<<>>, <<".">>, <<".", ".">>},
         ~(keys \subseteq Repos) \/ Cardinality(keys) < Len(in.repo_branches),
         in.collision # "none",
         in.missing_source # 0,
         \E b \in given : ~BranchNameOk(b, OriginRemote)>>

CheckNames == <<"forest name", "repo-branch key", "collision", "source", "branch name">>

\* C24: when a creation request violates more than one planner check, plan_forest
\* reports the failure of the earliest check in this order: forest name validity,
\* repo-branch override keys, directory/name collision, source repository existence,
\* branch-name validity; each failure is terminal and no partial plan is returned.
EarliestCheckIsReported ==
    qpc = "done" =>
       LET v == ViolatedChecks(qIn)
           failing == {k \in 1..5 : v[k]}
       IN /\ failing # {} =>
                /\ qOut.status = "err"
                /\ qOut.check = CheckNames[CHOOSE k \in failing : \A j \in failing : k <= j]
          /\ qOut.status = "err" => qOut.plan = <<>>
          /\ qOut.status = "ok" => (failing = {} /\ Len(qOut.plan) = NumRepos)

\* a request that violates all five checks was refused for its forest name
AllChecksViolated ==
    /\ qpc = "done"
    /\ \A k \in 1..5 : ViolatedChecks(qIn)[k]
    /\ qOut.check = "forest name"
    /\ qOut.plan = <<>>

\* the --repo-branch options of the request that name repository r
OptionsFor(r) == {i \in 1..Len(qIn.repo_branches) : qIn.repo_branches[i].repo = r}

\* C25: for each repository the target branch is the per-repo override if one names
\* that repository, otherwise the global override if given, otherwise the mode
\* default: in Feature mode the feature-branch pattern with the forest name
\* substituted for {name}, in Review mode forest/<forest-name>.
TargetBranchPrecedence ==
    (qpc = "done" /\ qIn.template \in BranchTemplates) =>
       \A r \in Repos :
          LET branch == qOut.plan[r].branch
              pieces == CHOOSE ps \in TemplatePieces :
                           PatternText(ps, NamePlaceholder) = qIn.template
          IN /\ OptionsFor(r) # {} =>
                   /\ \E i \in OptionsFor(r) : branch = qIn.repo_branches[i].branch
                   /\ \A i \in OptionsFor(r) :
                         (\A j \in OptionsFor(r) : i <= j) => branch = qIn.repo_branches[i].branch
             /\ (OptionsFor(r) = {} /\ qIn.branch_override # <<>>) =>
                   branch = qIn.branch_override[1]
             /\ (OptionsFor(r) = {} /\ qIn.branch_override = <<>> /\ qIn.mode = "Feature") =>
                   branch = PatternText(pieces, qIn.name)
             /\ (OptionsFor(r) = {} /\ qIn.branch_override = <<>> /\ qIn.mode = "Review") =>
                   branch = <<"f", "o", "r", "e", "s", "t", "/">> \o qIn.name

\* a request with a global override and an option for the first repository only: the
\* first repository gets the option's branch, the last one the global override
OverridesAtBothLevels ==
    /\ qpc = "done"
    /\ qIn.template \in BranchTemplates
    /\ qIn.branch_override = << <<"x">> >>
    /\ OptionsFor(1) # {}
    /\ OptionsFor(NumRepos) = {}
    /\ qOut.plan[1].branch \in {<<"y">>, <<"z">>}
    /\ qOut.plan[NumRepos].branch = <<"x">>

\* C28: sanitizing a forest name replaces every '/' with '-' and is deterministic:
\* "a/b/c" always sanitizes to "a-b-c", and its forest directory is always
\* <worktree_base>/a-b-c no matter how many times it is computed.
SanitizedNameIsStable ==
    (qpc = "done" /\ qIn.template \in BranchTemplates) =>
       LET clean == sanitize_forest_name(qIn.name)
       IN /\ Len(clean) = Len(qIn.name)
          /\ \A i \in 1..Len(clean) :
                /\ clean[i] # "/"
                /\ qIn.name[i] = "/" => clean[i] = "-"
                /\ qIn.name[i] # "/" => clean[i] = qIn.name[i]
          /\ qIn.name = <<"a", "/", "b", "/", "c">> =>
                /\ clean = <<"a", "-", "b", "-", "c">>
                /\ \A k \in 1..Len(qDirs) :
                      qDirs[k] = [abs |-> TRUE,
                                  comps |-> <<"base", <<"a", "-", "b", "-", "c">>>>]
          /\ \A k, l \in 1..Len(qDirs) : qDirs[k] = qDirs[l]

\* the forest directory of "a/b/c" was computed as often as the model allows
ForestDirComputedAgain ==
    /\ qpc = "done"
    /\ qIn.name = <<"a", "/", "b", "/", "c">>
    /\ Len(qDirs) = MaxComputations
    /\ qDirs[1].comps[2] = <<"a", "-", "b", "-", "c">>

\* the warning of plan_reset about a configuration it could not read
ParseWarning == <<"config exists but could not be parsed">>

\* cmd_reset ran on an unparsable configuration: it did not fail and planned no forest
ResetSurvivesBadConfig ==
    (rpc = "idle" /\ rpc' # "idle" /\ configFile = "corrupt") =>
       /\ resetResult'.status # "err"
       /\ resetPlan'.forests = <<>>
       /\ resetResult'.forests = <<>>
       /\ (resetFlags'.confirm /\ ~resetFlags'.dry_run) =>
             /\ rpc' = "reset_forests"
             /\ ForestsProcessed(rF', Len(resetPlan'.forests))

\* the executing reset deletes the configuration file and then the state file, each if
\* it existed at plan time; a deletion the file system refuses is recorded as an error
ResetDeletesFiles ==
    /\ (rpc = "reset_forests" /\ rpc' # "reset_forests" /\ resetPlan.config_exists) =>
          /\ rpc' = "reset_state"
          /\ \/ configFile' = "absent" /\ resetResult'.config_file.deleted
             \/ Len(resetResult'.errors) = Len(resetResult.errors) + 1
    /\ (rpc = "reset_state" /\ rpc' # "reset_state" /\ resetPlan.state_exists) =>
          /\ rpc' = "reset_done"
          /\ \/ ~stateFile' /\ resetResult'.state_file.deleted
             \/ Len(resetResult'.errors) = Len(resetResult.errors) + 1

\* C27 as stated: whenever the configuration file exists but cannot be parsed, reset
\* does not fail, records a warning, plans no forests, and a confirmed reset still
\* deletes the configuration and state files.
BadConfigAlwaysWarns ==
    [][/\ ResetSurvivesBadConfig
       /\ ResetDeletesFiles
       /\ (rpc = "idle" /\ rpc' # "idle" /\ configFile = "corrupt") =>
             resetResult'.warnings = ParseWarning]_vars

\* C27: if the configuration file exists but cannot be parsed, reset does not fail and
\* plans no forests; it records a warning unless it was asked to reset the
\* configuration only, in which case the file is not read and nothing is warned; a
\* confirmed reset still deletes the configuration and state files.
BadConfigIsNotFatal ==
    [][/\ ResetSurvivesBadConfig
       /\ ResetDeletesFiles
       /\ (rpc = "idle" /\ rpc' # "idle" /\ configFile = "corrupt") =>
             resetResult'.warnings = IF resetFlags'.config_only THEN <<>> ELSE ParseWarning]_vars

\* a confirmed reset went through with a warning about the configuration: both files
\* are gone and the forest directories it could not learn about are still there
ResetRecoveredFromBadConfig ==
    /\ rpc = "reset_done"
    /\ resetResult.status = "done"
    /\ ~resetResult.dry_run /\ ~resetResult.confirm_required
    /\ resetResult.warnings = ParseWarning
    /\ resetResult.forests = <<>>
    /\ resetResult.config_file.deleted /\ configFile = "absent"
    /\ resetResult.state_file.deleted /\ ~stateFile
    /\ rDirs # {}

\* the git / filesystem calls a step issued
NewCalls == calls' \ calls

\* the worktree step of the repository execute_rm visits, chosen from the plan alone
WorktreeStepOf(rp) ==
    IF ~rp.worktree_exists THEN {}
    ELSE IF ~rp.source_exists THEN {[cmd |-> "fs remove_dir_all", repo |-> rp.name]}
    ELSE {[cmd |-> "worktree remove", repo |-> rp.name]}

\* C31: execute_rm and the removal dry run decide solely from the worktree_exists,
\* source_exists and has_dirty_files values recorded in the plan: a change of the real
\* state between planning and execution does not change the preflight decision or the
\* per-repository branch of the decision tree.
RmTrustsThePlan ==
    [][/\ (pc = "rm_planned" /\ pc' # "rm_planned") =>
             (pc' = "rm_done" <=> (~force /\ \E i \in 1..Len(rmPlan) : rmPlan[i].has_dirty_files))
       /\ (pc = "idle" /\ pc' = "rm_done") =>
             (rmResult'.forest_dir_removed
                <=> ~(~force' /\ \E i \in 1..Len(rmPlan') : rmPlan'[i].has_dirty_files))
       /\ (pc = "rm_loop" /\ idx' = idx + 1) =>
             /\ {c \in NewCalls : c.cmd \in {"fs remove_dir_all", "worktree remove"}}
                  = WorktreeStepOf(rmPlan[idx])
             /\ (~rmPlan[idx].source_exists \/ ~rmPlan[idx].branch_created) =>
                   {c \in NewCalls : c.cmd \in {"branch -d", "branch -D"}} = {}]_vars

\* the preflight let a removal without force through although a worktree has become
\* dirty since the plan was made, and a source repository has disappeared since
StateChangedAfterPlan ==
    /\ pc = "rm_loop"
    /\ ~force
    /\ \E i \in 1..Len(rmPlan) :
         /\ ~rmPlan[i].has_dirty_files
         /\ rmPlan[i].name \in wtDirs /\ dirty[rmPlan[i].name]
    /\ \E i \in 1..Len(rmPlan) :
         rmPlan[i].source_exists /\ srcState[rmPlan[i].name] = "gone"

\* C32: for each repository in a proceeding removal: if worktree_exists is false the
\* worktree step is Skipped, mutates nothing and counts as success; otherwise if
\* source_exists is false the worktree directory is deleted directly from the
\* filesystem without invoking git; otherwise git worktree removal is invoked on the
\* source repository with the force flag passed through.
WorktreeStepDecisionTree ==
    [][(pc = "rm_loop" /\ idx' = idx + 1) =>
         LET rp == rmPlan[idx]
             r == rp.name
             res == rmResult'.repos[idx]
             gitCalled == [cmd |-> "worktree remove", repo |-> r] \in NewCalls
             fsCalled == [cmd |-> "fs remove_dir_all", repo |-> r] \in NewCalls
         IN /\ ~rp.worktree_exists =>
                  /\ res.worktree_removed = "Skipped"
                  /\ ~gitCalled /\ ~fsCalled
                  /\ wtDirs' = wtDirs /\ registered' = registered /\ dirty' = dirty
                  /\ Len(rmResult'.errors) = Len(rmResult.errors)
                       \/ res.branch_deleted = "Failed"
                  /\ (rp.branch_created /\ rp.source_exists) =>
                        \E c \in NewCalls : c.cmd \in {"branch -d", "branch -D"}
            /\ (rp.worktree_exists /\ ~rp.source_exists) =>
                  /\ fsCalled /\ ~gitCalled
                  /\ registered' = registered
                  /\ res.worktree_removed = (IF r \in wtDirs THEN "Success" ELSE "Failed")
                  /\ r \notin wtDirs'
            /\ (rp.worktree_exists /\ rp.source_exists) =>
                  /\ gitCalled /\ ~fsCalled
                  /\ res.worktree_removed \in {"Success", "Failed"}
                  /\ res.worktree_removed = "Success" =>
                        /\ r \notin wtDirs' /\ ~registered'[r]
                        /\ dirty[r] => force
                  /\ (force /\ GitUsable(r) /\ registered[r]) =>
                        res.worktree_removed = "Success"]_vars

\* a removal that skipped a worktree that was already gone and deleted the worktree of
\* a vanished source repository from the filesystem
SkippedAndDeletedDirectly ==
    /\ pc = "rm_done"
    /\ ~rmResult.dry_run
    /\ Len(rmResult.repos) = Len(rmPlan)
    /\ \E i, j \in 1..Len(rmPlan) :
         /\ ~rmPlan[i].worktree_exists
         /\ rmResult.repos[i].worktree_removed = "Skipped"
         /\ rmPlan[j].worktree_exists /\ ~rmPlan[j].source_exists
         /\ rmResult.repos[j].worktree_removed = "Success"
         /\ rmPlan[j].name \notin wtDirs

\* `git status --porcelain` can run in the worktree of repository r
StatusProbeWorks(r) == srcState[r] # "gone" /\ registered[r]

\* C40: in plan_rm, has_dirty_files is true only when the worktree directory exists and
\* the status probe succeeds with non-empty output; a missing worktree or a failing
\* status probe is recorded as not dirty and therefore never blocks the preflight.
DirtyOnlyWhenProbed ==
    [][/\ (pc = "idle" /\ pc' \in {"rm_planned", "rm_done"}) =>
             /\ \A i \in 1..Len(rmPlan') :
                  LET rp == rmPlan'[i] IN
                  /\ rp.has_dirty_files =>
                        /\ rp.worktree_exists /\ rp.name \in wtDirs
                        /\ StatusProbeWorks(rp.name) /\ dirty[rp.name]
                  /\ (rp.name \notin wtDirs \/ ~StatusProbeWorks(rp.name)) =>
                        ~rp.has_dirty_files
             /\ (\A r \in Repos : r \notin wtDirs \/ ~StatusProbeWorks(r)) =>
                   (pc' = "rm_done" => rmResult'.forest_dir_removed)
       /\ (pc = "rm_planned" /\ pc' # "rm_planned"
           /\ \A i \in 1..Len(rmPlan) :
                 ~rmPlan[i].worktree_exists \/ ~rmPlan[i].source_exists) =>
             pc' = "rm_loop"]_vars

\* the preflight of a removal without force passed over a worktree with uncommitted
\* changes whose status could not be read, next to a worktree that was gone
UnreadableDirtyWorktreePassed ==
    /\ pc = "rm_loop"
    /\ ~force
    /\ idx = 1
    /\ \E i, j \in 1..Len(rmPlan) :
         /\ rmPlan[i].worktree_exists /\ ~rmPlan[i].source_exists
         /\ dirty[rmPlan[i].name]
         /\ ~rmPlan[i].has_dirty_files
         /\ ~rmPlan[j].worktree_exists

\* C33 as stated: the ancestor-of-base-branch safety fallback is evaluated against the
\* repository's currently configured base branch, not the base branch that was in
\* effect when the forest's branch was created.
AncestorCheckUsesConfiguredBase ==
    bpc = "done" => \A r \in Repos : bOut[r].asked = cfgBase[r]

\* C33: the ancestor-of-base-branch safety fallback is evaluated against the base
\* branch recorded in the forest's metadata when the branch was created, whatever the
\* configuration names now.
AncestorCheckUsesRecordedBase ==
    bpc = "done" =>
       \A r \in Repos :
          /\ bOut[r].asked = bMeta[r]
          /\ bMeta[r] \in bAncestor[r] => bOut[r].safe

\* the base branch of a repository was changed after the forest was created, and the
\* check found the branch merged into the base branch it was created from
CheckedAgainstOldBase ==
    /\ bpc = "done"
    /\ \E r \in Repos :
         /\ cfgBase[r] # bMeta[r]
         /\ bOut[r].asked = bMeta[r]
         /\ bMeta[r] \in bAncestor[r]
         /\ cfgBase[r] \notin bAncestor[r]
         /\ bOut[r].safe

\* the repositories of the log's entries with the given operation, in log order
RECURSIVE LoggedRepos(_, _)
LoggedRepos(log, op) ==
    IF log = <<>> THEN <<>>
    ELSE (IF Head(log).op = op THEN <<Head(log).repo>> ELSE <<>>)
         \o LoggedRepos(Tail(log), op)

\* the rollback has run to its end
RolledBack == kpc = "done" /\ kLog # <<>> /\ kLog[Len(kLog)].op = "remove_dir_all"

\* C34: on a creation failure, the completed worktree additions are undone in the
\* reverse of the order in which they were created (last created first), and the
\* forest directory is deleted only after every one of them has been attempted.
RollbackInReverseOrder ==
    /\ RolledBack =>
          LoggedRepos(kLog, "worktree remove")
             = LastCreatedFirst(LoggedRepos(kLog, "worktree add"))
    /\ \A i \in 1..Len(kLog) :
          kLog[i].op = "remove_dir_all" =>
             /\ i = Len(kLog)
             /\ Len(LoggedRepos(kLog, "worktree remove")) = Len(kCreated)

\* a rollback went over two worktrees and deleted the forest directory after them
TwoWorktreesRolledBack ==
    /\ RolledBack
    /\ Len(kCreated) >= 2
    /\ Len(LoggedRepos(kLog, "worktree remove")) = Len(kCreated)

\* an executing reset has returned without errors
ResetWithoutErrors ==
    /\ rpc = "reset_done"
    /\ resetResult.status = "done"
    /\ ~resetResult.dry_run /\ ~resetResult.confirm_required
    /\ resetResult.errors = <<>>

\* nothing of an earlier forest stands in the way of `git forest new`
NothingBlocksNewForest ==
    \A f \in Forests : f \notin rDirs /\ \A r \in Repos : <<f, r>> \notin rReg

ErrorsOfKind(errors, kinds) == {i \in 1..Len(errors) : errors[i].kind \in kinds}

\* C39: in an executing reset, deletion of the configuration and state files is
\* attempted whenever they existed at plan time, regardless of whether any forest's
\* worktree unregistration or directory removal failed earlier in the same reset.
FilesDeletedDespiteErrors ==
    [][/\ (rpc = "reset_forests" /\ rpc' = "reset_state" /\ resetPlan.config_exists) =>
             \/ configFile' = "absent" /\ resetResult'.config_file.deleted
             \/ /\ Len(resetResult'.errors) = Len(resetResult.errors) + 1
                /\ resetResult'.errors[Len(resetResult'.errors)].kind = "failed to delete"
       /\ (rpc = "reset_state" /\ rpc' = "reset_done" /\ resetPlan.state_exists) =>
             \/ ~stateFile' /\ resetResult'.state_file.deleted
             \/ /\ Len(resetResult'.errors) = Len(resetResult.errors) + 1
                /\ resetResult'.errors[Len(resetResult'.errors)].kind = "failed to delete"
       /\ (rpc = "reset_forests" /\ rpc' # "reset_forests") => rpc' = "reset_state"
       /\ (rpc = "reset_state" /\ rpc' # "reset_state") => rpc' = "reset_done"]_vars

\* a reset could not unregister a worktree and could not remove a forest directory,
\* and deleted both files all the same
FilesDeletedAfterFailures ==
    /\ rpc = "reset_done"
    /\ resetResult.status = "done"
    /\ ErrorsOfKind(resetResult.errors, {"worktree remove failed"}) # {}
    /\ ErrorsOfKind(resetResult.errors, {"failed to remove forest"}) # {}
    /\ ErrorsOfKind(resetResult.errors, {"failed to delete"}) = {}
    /\ resetResult.config_file.existed /\ resetResult.config_file.deleted
    /\ resetResult.state_file.existed /\ resetResult.state_file.deleted
    /\ configFile = "absent" /\ ~stateFile

\* an executing reset has returned and its deletion of the state file did not fail
ResetCompleted ==
    /\ rpc = "reset_done"
    /\ resetResult.status = "done"
    /\ ~resetResult.dry_run /\ ~resetResult.confirm_required
    /\ resetResult.state_file.existed => resetResult.state_file.deleted

\* C36: after a confirmed reset completes, the state file does not exist and is not
\* recreated: reset itself triggers no version check, and no background version check
\* spawned by an earlier command writes the file afterwards.
StateFileStaysDeleted ==
    /\ [](ResetCompleted => ~stateFile)
    /\ [][rpc # "idle" => vBg' <= vBg]_vars

\* C38: for every forest that reset discovers under a worktree base, the directory
\* whose worktrees it unregisters and which it removes is the directory in which that
\* forest's metadata file was found; hence after a confirmed reset that reports no
\* errors, no discovered forest's directory remains.
ResetRemovesTheDirectoryItFound ==
    /\ dpc = "teardown" =>
          \A i \in dIdx..Len(dPlan) :
             /\ dDisk[dPlan[i].path].kind = "forest"
             /\ dDisk[dPlan[i].path].meta = dPlan[i].name
    /\ (dpc = "done" /\ dResult.errors = <<>>) =>
          \A i \in 1..Len(dPlan) :
             \A d \in DiscoverDirs : dDisk[d].meta # dPlan[i].name

\* C38 (second half alone): after a reset that reports no errors, no directory that
\* held a discovered forest's metadata remains
NoDiscoveredDirectoryRemains ==
    (dpc = "done" /\ dResult.errors = <<>>) =>
        \A i \in 1..Len(dPlan) :
           \A d \in DiscoverDirs : dDisk[d].meta # dPlan[i].name

\* the branch of repository r is deleted in this step
BranchDeleted(r) == localRef[r] /\ ~localRef'[r]

\* C37: rollback removes worktrees but never deletes a branch: the branch that the
\* failed attempt created for the first repository exists ever after, every later plan
\* resolves that repository to ExistingLocal with branch_created = false, the metadata
\* written on retry records branch_created = false for it, and no later removal,
\* forced or not, runs a branch deletion for it.
RetryKeepsTheBranch ==
    /\ [](localRef[1])
    /\ [][(plan' # plan /\ plan' # <<>>) =>
            (plan'[1].checkout = "ExistingLocal" /\ ~branch_created(plan'[1].checkout))]_vars
    /\ [][(metaFile' # metaFile /\ metaFile'.state = "ok") =>
            \A i \in 1..Len(metaFile'.repos) :
               metaFile'.repos[i].name = 1 => ~metaFile'.repos[i].branch_created]_vars
    /\ [](\A c \in calls : c.cmd \in {"branch -d", "branch -D"} => c.repo # 1)
    /\ [][~BranchDeleted(1)]_vars

\* the forest made on retry was removed with --force, every worktree included, and the
\* branch of the first repository is still there
RetriedForestRemovedByForce ==
    /\ pc = "rm_done"
    /\ force
    /\ Len(rmPlan) = NumRepos
    /\ \A i \in 1..Len(rmPlan) : rmResult.repos[i].worktree_removed = "Success"
    /\ ~rmPlan[1].branch_created
    /\ localRef[1]

====
